---- MODULE Spec2Model ----
(***************************************************************************)
(* Model of WorkspaceInitializer                                           *)
(* (kubernetes/workspace_controller/services/workspace_initializer.py).    *)
(*                                                                         *)
(* The provisioning pipeline initialize_workspace and the teardown         *)
(* _cleanup_failed_workspace are modelled one platform call per step,      *)
(* against a model of the cluster platform in which every call may fail.   *)
(***************************************************************************)
EXTENDS Naturals, Integers, Sequences, FiniteSets, TLC

(* ----------------------------- bounds --------------------------------- *)

\* Number of top-level calls (initialize_workspace or
\* _cleanup_failed_workspace) the caller makes for one workspace id.
MaxCalls == 3

\* Number of polls that may answer with an ApiException other than 404
\* during one teardown (the code puts no bound on them).
MaxApiErrors == 1

(* ------------------------ program constants --------------------------- *)

\* max_retries = 30 in _cleanup_failed_workspace.
MaxRetries == 30

\* The workspace ids the caller may use: workspace_id is any str. With the
\* id "system" the workspace's namespace is the shared namespace.
WorkspaceIds == {"w1", "w2", "system"}

\* namespace = f"workspace-{workspace_id}"
Namespace(w) == "workspace-" \o w

\* The fixed shared namespace the cluster-shared assets are read from.
SystemNamespace == "workspace-system"

NamespaceNames == {Namespace(w) : w \in WorkspaceIds} \cup {SystemNamespace}

\* Objects are <<kind, name>>; the names are the literals of the source.
Obj(kind, name) == <<kind, name>>

WorkspacePvc        == Obj("pvc", "workspace-data")
RegistryPvc         == Obj("pvc", "registry-storage")
WorkspaceSecret     == Obj("secret", "workspace-secret")
InitConfigMap       == Obj("configmap", "workspace-init")
FeatureConfigMap    == Obj("configmap", "feature-install")
InfoConfigMap       == Obj("configmap", "workspace-info")
PortDetectorCm      == Obj("configmap", "port-detector")
WildcardCert        == Obj("secret", "workspace-domain-wildcard-tls")
RegistryCredentials == Obj("secret", "registry-credentials")
ServiceAccount      == Obj("serviceaccount", "workspace-controller")
Deployment          == Obj("deployment", "workspace")
Service             == Obj("service", "workspace")
Ingress             == Obj("ingress", "workspace")

\* In the call log: the namespace itself, and all objects of one kind.
NamespaceObj        == Obj("namespace", "")
AllOf(kind)         == Obj(kind, "*")

\* The objects whose creation is not wrapped in a tolerant try/except.
MandatoryObjects ==
    { WorkspacePvc, RegistryPvc, WorkspaceSecret, InitConfigMap,
      FeatureConfigMap, InfoConfigMap, RegistryCredentials, ServiceAccount,
      Deployment, Service, Ingress }

\* The objects copied from the shared namespace on a best-effort basis.
SharedObjects == { PortDetectorCm, WildcardCert }

AllObjects == MandatoryObjects \cup SharedObjects

(* ------------------------------ state --------------------------------- *)

VARIABLES
    nsPhase,      \* platform: namespace name -> "absent" | "active" | "terminating"
    nsLabel,      \* platform: namespace name -> value of its "initialization" label
    nsObjs,       \* platform: namespace name -> set of objects it holds
    clients,      \* the workspace ids for which the caller issues calls
    pc,           \* per workspace id: position of the call in progress
    result,       \* per workspace id: what the last call returned
    log,          \* per workspace id: platform calls issued by the current/last call
    max_retries,  \* per workspace id: the teardown's local max_retries
    polls,        \* per workspace id: read_namespace calls issued by the teardown
    apiErrors,    \* per workspace id: polls answered by a non-404 ApiException
    report,       \* per workspace id: what the teardown logged at its end
    startPhase,   \* per workspace id: phase of its namespace when the call began
    ncalls,       \* per workspace id: calls made so far
    op,           \* per workspace id: the operation called last
    prev,         \* per workspace id: the call before the current one was a
                  \* teardown that reported a successful cleanup
    workspace_config  \* the module-level dictionary workspace_config

\* One initialize_workspace call seen from the inside: the values it
\* computes, the content of the objects it submits, and the pod the
\* platform runs from the deployment.
VARIABLES
    wl_pc,            \* position of the call / of the pod
    args,             \* the arguments of the call and the clock reading
    build_timestamp,  \* the local build_timestamp
    chosen,           \* the characters random.choice has returned so far
    workspace_ids,    \* the dictionary workspace_ids
    objects,          \* content of the objects submitted, by object
    pod               \* the pod: containers started and finished

workloadVars == <<wl_pc, args, build_timestamp, chosen, workspace_ids, objects, pod>>

\* One container start seen from install-features.sh.
VARIABLES
    inst_pc,           \* position of the script
    features_file,     \* /workspaces/.devcontainer-features
    FEATURES_JSON,     \* the shell variable FEATURES_JSON
    exit_status,       \* exit status of the last run, -1 while it runs
    install_steps,     \* the installation blocks the run has executed
    installed,         \* the tools present in the container
    installed_before,  \* the tools present when the run began
    runs               \* runs of the script so far

installerVars == <<inst_pc, features_file, FEATURES_JSON, exit_status,
                   install_steps, installed, installed_before, runs>>

\* One run of the compile section of init.sh on the cloned repository.
VARIABLES
    comp_pc,        \* position of the script
    repo,           \* /workspaces/<repo_name>: whether the directory is
                    \* there, its .devcontainer/Dockerfile and its
                    \* .devcontainer/devcontainer.json
    remote,         \* what github_urls[0] holds on the branch
    image_jq,       \* whether the image of the init container ships jq
    files,          \* the files under /workspaces the script has written
    directories,    \* the directories under /workspaces it has made
    written,        \* the files the current run has written
    files_before,   \* the files when the current run began
    inputs_before,  \* the repository and jq as the previous run had them
    compiles,       \* runs of the script so far
    jq              \* whether jq is on the search path of the container

compilerVars == <<comp_pc, repo, remote, image_jq, files, directories, written,
                  files_before, inputs_before, compiles, jq>>

\* One start of the code-server container seen from the ENTRYPOINT of the
\* wrapper image.
VARIABLES
    ep_phase,     \* what the shell is doing
    ep_at,        \* the element of the && list it is at
    ep_files,     \* the optional files present under /workspaces
    ep_log,       \* the commands started and ended, in order
    ep_status,    \* $? of the shell
    lifecycle,    \* the background job
    starts        \* container starts so far

entrypointVars == <<ep_phase, ep_at, ep_files, ep_log, ep_status, lifecycle,
                    starts>>

\* The variables no step of the orchestration model touches.
otherVars == <<workloadVars, installerVars, compilerVars, entrypointVars>>

platformVars == <<nsPhase, nsLabel, nsObjs>>
callVars     == <<pc, result, log, startPhase, ncalls, op, prev>>
teardownVars == <<max_retries, polls, apiErrors, report>>
vars == <<nsPhase, nsLabel, nsObjs, clients, pc, result, log, max_retries,
          polls, apiErrors, report, startPhase, ncalls, op, prev,
          workspace_config, wl_pc, args, build_timestamp, chosen,
          workspace_ids, objects, pod, inst_pc, features_file, FEATURES_JSON,
          exit_status, install_steps, installed, installed_before, runs,
          comp_pc, repo, remote, image_jq, files, directories, written,
          files_before, inputs_before, compiles, jq,
          ep_phase, ep_at, ep_files, ep_log, ep_status, lifecycle, starts>>

\* One entry of the call log: the API method, the namespace it addresses,
\* the object (or kind) it concerns, and whether it returned normally.
Call(api, ns, obj, ok) == [api |-> api, ns |-> ns, obj |-> obj, ok |-> ok]

Logged(w, api, ns, obj, ok) == Append(log[w], Call(api, ns, obj, ok))

(* ------------------------ the cluster platform ------------------------ *)

\* A create call can only succeed in an active namespace that does not
\* hold the object yet; any call may also fail for a reason of its own.
CanCreate(ns, obj) == nsPhase[ns] = "active" /\ obj \notin nsObjs[ns]

\* A namespace can only be created when no namespace has that name.
CanCreateNamespace(ns) == nsPhase[ns] = "absent"

\* A read of an object of the shared namespace.
CanRead(ns, obj) == nsPhase[ns] = "active" /\ obj \in nsObjs[ns]

\* The platform finishes a requested namespace deletion at a time of its
\* own choosing: the namespace and everything in it disappear.
PlatformFinalizeNamespace(w) ==
    /\ nsPhase[Namespace(w)] = "terminating"
    /\ nsPhase' = [nsPhase EXCEPT ![Namespace(w)] = "absent"]
    /\ nsLabel' = [nsLabel EXCEPT ![Namespace(w)] = "none"]
    /\ nsObjs' = [nsObjs EXCEPT ![Namespace(w)] = {}]
    /\ UNCHANGED <<clients, otherVars, workspace_config, callVars, teardownVars>>

\* The locals of a teardown that has returned are gone when the next call
\* begins.
ResetTeardownLocals(w) ==
    /\ max_retries' = [max_retries EXCEPT ![w] = MaxRetries]
    /\ polls' = [polls EXCEPT ![w] = 0]
    /\ apiErrors' = [apiErrors EXCEPT ![w] = 0]
    /\ report' = [report EXCEPT ![w] = "none"]

(* ----------------------- initialize_workspace ------------------------- *)

\* The module-level workspace_config, set when the module is loaded.
DefaultWorkspaceConfig ==
    [github_branches |-> <<"main">>, github_urls |-> <<>>]

\* The dictionary initialize_workspace builds for its call and binds to
\* the name workspace_config.
LocalWorkspaceConfig(w) ==
    [repo_name |-> <<"org", w>>,
     github_urls |-> << <<"https://github.com/", "org", w>> >>,
     github_branches |-> <<"main">>,
     pool_name |-> "pool"]

\* Faulty variant of ModuleWorkspaceConfigAfterCall: the assignment binds
\* the module-level name (as with a global declaration).
ModuleWorkspaceConfigAfterCall_global(w) == LocalWorkspaceConfig(w)

\* The module-level workspace_config once initialize_workspace has made
\* its assignment: the name assigned in the function is a local one, the
\* module-level dictionary is left as it was.
ModuleWorkspaceConfigAfterCall(w) == workspace_config

\* The caller invokes initialize_workspace(workspace_id = w, ...).
Call_initialize_workspace(w) ==
    /\ w \in clients
    /\ pc[w] = "idle"
    /\ ncalls[w] < MaxCalls
    /\ ncalls' = [ncalls EXCEPT ![w] = @ + 1]
    /\ op' = [op EXCEPT ![w] = "initialize_workspace"]
    /\ pc' = [pc EXCEPT ![w] = "create_namespace"]
    /\ result' = [result EXCEPT ![w] = "none"]
    /\ log' = [log EXCEPT ![w] = <<>>]
    /\ startPhase' = [startPhase EXCEPT ![w] = nsPhase[Namespace(w)]]
    /\ prev' = [prev EXCEPT ![w] = (report[w] = "success")]
    /\ workspace_config' = ModuleWorkspaceConfigAfterCall(w)
    /\ ResetTeardownLocals(w)
    /\ UNCHANGED <<platformVars, clients, otherVars>>

\* Faulty variant of OnStageFailure: the exception is swallowed and the
\* pipeline goes on with the next stage.
OnStageFailure_continues(w, next) ==
    /\ pc' = [pc EXCEPT ![w] = next]
    /\ result' = [result EXCEPT ![w] = IF next = "idle" THEN "True" ELSE @]

\* Faulty variant of OnStageFailure: the except clause returns True.
OnStageFailure_returnsTrue(w, next) ==
    /\ pc' = [pc EXCEPT ![w] = "idle"]
    /\ result' = [result EXCEPT ![w] = "True"]

\* A platform call of the pipeline raised: the except clause of
\* initialize_workspace logs the error and returns False. It makes no
\* platform call.
OnStageFailure(w, next) ==
    /\ pc' = [pc EXCEPT ![w] = "idle"]
    /\ result' = [result EXCEPT ![w] = "False"]

\* The call returned normally: the pipeline goes on to the next stage, and
\* after the last stage initialize_workspace returns True.
OnStageSuccess(w, next) ==
    /\ pc' = [pc EXCEPT ![w] = next]
    /\ result' = [result EXCEPT ![w] = IF next = "idle" THEN "True" ELSE @]

\* _create_namespace: create the namespace with its labels.
InitialLabel == "in-progress"

_create_namespace(w) ==
    /\ pc[w] = "create_namespace"
    /\ \E ok \in BOOLEAN :
        /\ ok => CanCreateNamespace(Namespace(w))
        /\ log' = [log EXCEPT ![w] =
                     Logged(w, "create_namespace", Namespace(w), NamespaceObj, ok)]
        /\ IF ok
           THEN /\ nsPhase' = [nsPhase EXCEPT ![Namespace(w)] = "active"]
                /\ nsLabel' = [nsLabel EXCEPT ![Namespace(w)] = InitialLabel]
                /\ UNCHANGED nsObjs
                /\ OnStageSuccess(w, "create_workspace_pvc")
           ELSE /\ UNCHANGED platformVars
                /\ OnStageFailure(w, "create_workspace_pvc")
    /\ UNCHANGED <<clients, otherVars, workspace_config, startPhase, ncalls, op, prev, teardownVars>>

\* A stage that issues one create_namespaced_* call for `obj` in the
\* workspace's namespace and lets its exception propagate.
CreateNamespaced(w, here, obj, next) ==
    /\ pc[w] = here
    /\ \E ok \in BOOLEAN :
        /\ ok => CanCreate(Namespace(w), obj)
        /\ log' = [log EXCEPT ![w] = Logged(w, "create", Namespace(w), obj, ok)]
        /\ IF ok
           THEN /\ nsObjs' = [nsObjs EXCEPT ![Namespace(w)] = @ \cup {obj}]
                /\ OnStageSuccess(w, next)
           ELSE /\ UNCHANGED nsObjs
                /\ OnStageFailure(w, next)
    /\ UNCHANGED <<nsPhase, nsLabel, clients, otherVars, workspace_config, startPhase, ncalls, op, prev, teardownVars>>

\* The position of a copy stage between its two platform calls: the read
\* has returned, the creation is not issued yet.
CopyRead(here) == here \o ":read_done"

\* The first call of a copy stage: read_namespaced_* of `obj` in the shared
\* namespace. When it raises, the except clause of the stage logs a warning
\* and the stage returns.
ReadFromSystem(w, here, obj, next) ==
    /\ pc[w] = here
    /\ \E readOk \in BOOLEAN :
        /\ readOk => CanRead(SystemNamespace, obj)
        /\ log' = [log EXCEPT ![w] = Logged(w, "read", SystemNamespace, obj, readOk)]
        /\ IF readOk
           THEN /\ pc' = [pc EXCEPT ![w] = CopyRead(here)]
                /\ UNCHANGED result
           ELSE OnStageSuccess(w, next)
    /\ UNCHANGED <<platformVars, clients, otherVars, workspace_config, startPhase, ncalls, op, prev, teardownVars>>

\* Faulty variant of CopyFromSystem: an exception of the read or of the
\* creation leaves the stage and reaches the handler of
\* initialize_workspace.
CopyFromSystem_propagates(w, here, obj, next) ==
    \/ /\ pc[w] = here
       /\ \E readOk \in BOOLEAN :
           /\ readOk => CanRead(SystemNamespace, obj)
           /\ log' = [log EXCEPT ![w] = Logged(w, "read", SystemNamespace, obj, readOk)]
           /\ IF readOk
              THEN /\ pc' = [pc EXCEPT ![w] = CopyRead(here)]
                   /\ UNCHANGED result
              ELSE OnStageFailure(w, next)
       /\ UNCHANGED <<platformVars, clients, otherVars, workspace_config, startPhase, ncalls, op, prev, teardownVars>>
    \/ /\ pc[w] = CopyRead(here)
       /\ \E createOk \in BOOLEAN :
           /\ createOk => CanCreate(Namespace(w), obj)
           /\ log' = [log EXCEPT ![w] = Logged(w, "create", Namespace(w), obj, createOk)]
           /\ nsObjs' = [nsObjs EXCEPT ![Namespace(w)] =
                           IF createOk THEN @ \cup {obj} ELSE @]
           /\ IF createOk THEN OnStageSuccess(w, next) ELSE OnStageFailure(w, next)
       /\ UNCHANGED <<nsPhase, nsLabel, clients, otherVars, workspace_config, startPhase, ncalls, op, prev, teardownVars>>

\* The second call of a copy stage: create_namespaced_* of the copy in the
\* workspace's namespace. Whether it returns or raises, the stage returns.
CreateCopy(w, here, obj, next) ==
    /\ pc[w] = CopyRead(here)
    /\ \E createOk \in BOOLEAN :
        /\ createOk => CanCreate(Namespace(w), obj)
        /\ log' = [log EXCEPT ![w] = Logged(w, "create", Namespace(w), obj, createOk)]
        /\ nsObjs' = [nsObjs EXCEPT ![Namespace(w)] =
                        IF createOk THEN @ \cup {obj} ELSE @]
    /\ OnStageSuccess(w, next)
    /\ UNCHANGED <<nsPhase, nsLabel, clients, otherVars, workspace_config, startPhase, ncalls, op, prev, teardownVars>>

\* A stage that reads `obj` from the shared namespace and creates a copy in
\* the workspace's namespace, inside a try/except that only logs a warning:
\* whatever fails, the pipeline goes on. The two platform calls are two
\* steps.
CopyFromSystem(w, here, obj, next) ==
    \/ ReadFromSystem(w, here, obj, next)
    \/ CreateCopy(w, here, obj, next)

\* Faulty variant of _create_workspace_pvc: the registry cache volume is
\* left out and the credential secret comes next.
_create_workspace_pvc_only(w) ==
    CreateNamespaced(w, "create_workspace_pvc", WorkspacePvc, "create_workspace_secret")

_create_workspace_pvc(w) ==
    CreateNamespaced(w, "create_workspace_pvc", WorkspacePvc, "create_registry_pvc")

_create_registry_pvc(w) ==
    CreateNamespaced(w, "create_registry_pvc", RegistryPvc, "create_workspace_secret")

\* The stage that follows begins with generate_init_script(workspace_ids,
\* workspace_config) of utils.workspace_init: it returns the script, or it
\* raises, and the handler of initialize_workspace returns False before
\* the creation of the config map is issued.
_create_workspace_secret(w) ==
    /\ pc[w] = "create_workspace_secret"
    /\ \E ok, generated \in BOOLEAN :
        /\ ok => CanCreate(Namespace(w), WorkspaceSecret)
        /\ log' = [log EXCEPT ![w] = Logged(w, "create", Namespace(w), WorkspaceSecret, ok)]
        /\ IF ok
           THEN /\ nsObjs' = [nsObjs EXCEPT ![Namespace(w)] = @ \cup {WorkspaceSecret}]
                /\ IF generated
                   THEN OnStageSuccess(w, "create_init_script_configmap")
                   ELSE OnStageFailure(w, "create_init_script_configmap")
           ELSE /\ UNCHANGED nsObjs
                /\ OnStageFailure(w, "create_init_script_configmap")
    /\ UNCHANGED <<nsPhase, nsLabel, clients, otherVars, workspace_config, startPhase, ncalls, op, prev, teardownVars>>

_create_init_script_configmap(w) ==
    CreateNamespaced(w, "create_init_script_configmap", InitConfigMap,
                     "create_feature_installation_configmap")

_create_feature_installation_configmap(w) ==
    CreateNamespaced(w, "create_feature_installation_configmap", FeatureConfigMap,
                     "create_workspace_info_configmap")

_create_workspace_info_configmap(w) ==
    CreateNamespaced(w, "create_workspace_info_configmap", InfoConfigMap,
                     "copy_port_detector_configmap")

_copy_port_detector_configmap(w) ==
    CopyFromSystem(w, "copy_port_detector_configmap", PortDetectorCm,
                   "copy_wildcard_certificate")

_copy_wildcard_certificate(w) ==
    CopyFromSystem(w, "copy_wildcard_certificate", WildcardCert,
                   "create_registry_credentials")

_create_registry_credentials(w) ==
    CreateNamespaced(w, "create_registry_credentials", RegistryCredentials,
                     "create_service_account")

_create_service_account(w) ==
    CreateNamespaced(w, "create_service_account", ServiceAccount, "create_deployment")

_create_deployment(w) ==
    CreateNamespaced(w, "create_deployment", Deployment, "create_service")

_create_service(w) ==
    CreateNamespaced(w, "create_service", Service, "create_ingress")

\* The last stage: when it returns, initialize_workspace returns True.
_create_ingress(w) ==
    CreateNamespaced(w, "create_ingress", Ingress, "idle")

initialize_workspace(w) ==
    \/ _create_namespace(w)
    \/ _create_workspace_pvc(w)
    \/ _create_registry_pvc(w)
    \/ _create_workspace_secret(w)
    \/ _create_init_script_configmap(w)
    \/ _create_feature_installation_configmap(w)
    \/ _create_workspace_info_configmap(w)
    \/ _copy_port_detector_configmap(w)
    \/ _copy_wildcard_certificate(w)
    \/ _create_registry_credentials(w)
    \/ _create_service_account(w)
    \/ _create_deployment(w)
    \/ _create_service(w)
    \/ _create_ingress(w)

(* --------------------- _cleanup_failed_workspace ---------------------- *)

\* Faulty variant of FirstTeardownStep: the namespace is deleted first.
FirstTeardownStep_namespace == "delete_namespace"

\* The teardown's first step is the deletion of the deployments.

FirstTeardownStep == "delete_deployments"

\* The caller invokes _cleanup_failed_workspace({'namespace_name': ...}).
Call_cleanup_failed_workspace(w) ==
    /\ w \in clients
    /\ pc[w] = "idle"
    /\ ncalls[w] < MaxCalls
    /\ ncalls' = [ncalls EXCEPT ![w] = @ + 1]
    /\ op' = [op EXCEPT ![w] = "_cleanup_failed_workspace"]
    /\ pc' = [pc EXCEPT ![w] = FirstTeardownStep]
    /\ result' = [result EXCEPT ![w] = "none"]
    /\ log' = [log EXCEPT ![w] = <<>>]
    /\ startPhase' = [startPhase EXCEPT ![w] = nsPhase[Namespace(w)]]
    /\ prev' = [prev EXCEPT ![w] = (report[w] = "success")]
    /\ ResetTeardownLocals(w)
    /\ UNCHANGED <<platformVars, clients, otherVars, workspace_config>>

\* Faulty variant of OnDeleteStepFailure: the exception reaches the outer
\* except clause and ends the teardown.
OnDeleteStepFailure_aborts(w, next) ==
    /\ pc' = [pc EXCEPT ![w] = "idle"]
    /\ result' = [result EXCEPT ![w] = "returned"]
    /\ report' = [report EXCEPT ![w] = "error"]

\* A collection deletion raised: its own except clause logs a warning and
\* the teardown goes on with the next step.
OnDeleteStepFailure(w, next) ==
    /\ pc' = [pc EXCEPT ![w] = next]
    /\ UNCHANGED <<result, report>>

\* One delete_collection_namespaced_* call inside its own try/except: on
\* success the platform removes every object of that kind from the
\* namespace (nothing, in a namespace that does not exist).
DeleteCollection(w, here, kind, next) ==
    /\ pc[w] = here
    /\ \E ok \in BOOLEAN :
        /\ log' = [log EXCEPT ![w] =
                     Logged(w, "delete_collection", Namespace(w), AllOf(kind), ok)]
        /\ IF ok
           THEN /\ nsObjs' = [nsObjs EXCEPT ![Namespace(w)] =
                                {o \in @ : o[1] # kind}]
                /\ pc' = [pc EXCEPT ![w] = next]
                /\ UNCHANGED <<result, report>>
           ELSE /\ UNCHANGED nsObjs
                /\ OnDeleteStepFailure(w, next)
    /\ UNCHANGED <<nsPhase, nsLabel, clients, otherVars, workspace_config, startPhase, ncalls, op, prev,
                   max_retries, polls, apiErrors>>

delete_deployments(w) ==
    DeleteCollection(w, "delete_deployments", "deployment", "delete_services")

delete_services(w) ==
    DeleteCollection(w, "delete_services", "service", "delete_configmaps")

delete_configmaps(w) ==
    DeleteCollection(w, "delete_configmaps", "configmap", "delete_pvcs")

delete_pvcs(w) ==
    DeleteCollection(w, "delete_pvcs", "pvc", "delete_namespace")

\* Faulty variant of OnCleanupException: the exception is raised again.
OnCleanupException_raises(w) ==
    /\ pc' = [pc EXCEPT ![w] = "idle"]
    /\ result' = [result EXCEPT ![w] = "raised"]
    /\ report' = [report EXCEPT ![w] = "error"]

\* An exception reached the outer except clause of the teardown: it logs
\* the error and returns; it does not raise.
OnCleanupException(w) ==
    /\ pc' = [pc EXCEPT ![w] = "idle"]
    /\ result' = [result EXCEPT ![w] = "returned"]
    /\ report' = [report EXCEPT ![w] = "error"]

\* delete_namespace is not in a try/except of its own. The platform
\* answers 404 for a namespace that does not exist; an accepted deletion
\* leaves the namespace terminating until the platform has finalized it.
\* On success the teardown sets max_retries and enters the poll loop.
delete_namespace(w) ==
    /\ pc[w] = "delete_namespace"
    /\ \E ok \in BOOLEAN :
        /\ ok => nsPhase[Namespace(w)] # "absent"
        /\ log' = [log EXCEPT ![w] =
                     Logged(w, "delete_namespace", Namespace(w), NamespaceObj, ok)]
        /\ IF ok
           THEN /\ nsPhase' = [nsPhase EXCEPT ![Namespace(w)] = "terminating"]
                /\ max_retries' = [max_retries EXCEPT ![w] = MaxRetries]
                /\ pc' = [pc EXCEPT ![w] = "poll"]
                /\ UNCHANGED <<result, report>>
           ELSE /\ UNCHANGED <<nsPhase, max_retries>>
                /\ OnCleanupException(w)
    /\ UNCHANGED <<nsLabel, nsObjs, clients, otherVars, workspace_config, startPhase, ncalls, op, prev,
                   polls, apiErrors>>

\* The outcomes of read_namespace: it returns the namespace ("exists"),
\* raises ApiException with status 404 ("404"), raises ApiException with
\* another status ("api_error"), or raises another exception ("error").
ReadOutcomes == {"exists", "404", "api_error", "error"}

CanAnswer(ns, outcome) ==
    /\ outcome = "exists" => nsPhase[ns] # "absent"
    /\ outcome = "404" => nsPhase[ns] = "absent"

\* What the teardown logs once the poll loop is over.
ReportAfterLoop(retries) == IF retries = 0 THEN "timeout" ELSE "success"

\* The poll loop is over: log the outcome and return.
LeaveLoop(w, retries) ==
    /\ pc' = [pc EXCEPT ![w] = "idle"]
    /\ result' = [result EXCEPT ![w] = "returned"]
    /\ report' = [report EXCEPT ![w] = ReportAfterLoop(retries)]

\* How max_retries changes on a poll that raised an ApiException whose
\* status is not 404: the except clause does nothing, the loop goes round.
RetriesAfterApiError(retries) == retries

\* The loop test "while max_retries > 0" with the value `retries`: the loop
\* goes round with another read_namespace, or is left.
TestLoop(w, retries) ==
    IF retries > 0
    THEN /\ pc' = [pc EXCEPT ![w] = "poll"]
         /\ UNCHANGED <<result, report>>
    ELSE LeaveLoop(w, retries)

\* The read_namespace call of one iteration of "while max_retries > 0".
\* When it returns, the iteration goes on to time.sleep(1).
poll_namespace(w) ==
    /\ pc[w] = "poll"
    /\ max_retries[w] > 0
    /\ \E outcome \in ReadOutcomes :
        /\ CanAnswer(Namespace(w), outcome)
        /\ outcome = "api_error" => apiErrors[w] < MaxApiErrors
        /\ polls' = [polls EXCEPT ![w] = @ + 1]
        /\ apiErrors' = [apiErrors EXCEPT ![w] =
                           IF outcome = "api_error" THEN @ + 1 ELSE @]
        /\ CASE outcome = "exists" ->
                  /\ pc' = [pc EXCEPT ![w] = "sleep"]
                  /\ UNCHANGED <<max_retries, result, report>>
             [] outcome = "404" ->
                  \* break
                  /\ UNCHANGED max_retries
                  /\ LeaveLoop(w, max_retries[w])
             [] outcome = "api_error" ->
                  /\ max_retries' = [max_retries EXCEPT ![w] =
                                       RetriesAfterApiError(@)]
                  /\ TestLoop(w, RetriesAfterApiError(max_retries[w]))
             [] outcome = "error" ->
                  /\ UNCHANGED max_retries
                  /\ OnCleanupException(w)
    /\ UNCHANGED <<platformVars, clients, otherVars, workspace_config, log, startPhase, ncalls, op, prev>>

\* The rest of an iteration whose read returned: time.sleep(1) returns,
\* max_retries -= 1, and the loop test.
sleep(w) ==
    /\ pc[w] = "sleep"
    /\ max_retries' = [max_retries EXCEPT ![w] = @ - 1]
    /\ TestLoop(w, max_retries[w] - 1)
    /\ UNCHANGED <<platformVars, clients, otherVars, workspace_config, log, startPhase, ncalls, op, prev,
                   polls, apiErrors>>

_cleanup_failed_workspace(w) ==
    \/ delete_deployments(w)
    \/ delete_services(w)
    \/ delete_configmaps(w)
    \/ delete_pvcs(w)
    \/ delete_namespace(w)
    \/ poll_namespace(w)
    \/ sleep(w)

(* ---------------- the values and objects of one call ------------------ *)

\* Python's None.
None == "<None>"

\* The configuration of the WorkspaceInitializer instance.
workspace_domain == "workspaces.example.com"

aws_account_id == "123456789012"

\* A value the conditions `if not x` / `if x` treat as absent.
Falsy(x) == x \in {None, ""}

\* string.ascii_lowercase, string.ascii_uppercase, string.digits
AsciiLowercase ==
    { "a", "b", "c", "d", "e", "f", "g", "h", "i", "j", "k", "l", "m",
      "n", "o", "p", "q", "r", "s", "t", "u", "v", "w", "x", "y", "z" }

AsciiUppercase ==
    { "A", "B", "C", "D", "E", "F", "G", "H", "I", "J", "K", "L", "M",
      "N", "O", "P", "Q", "R", "S", "T", "U", "V", "W", "X", "Y", "Z" }

Digits == { "0", "1", "2", "3", "4", "5", "6", "7", "8", "9" }

\* The characters random.choice is let to return in the model, when they
\* belong to the alphabet it is given.
SampledCharacters == { "a", "7", "Q" }

\* The default of the parameter `length` of _generate_random_subdomain.
SubdomainLength == 8

\* Faulty variant of letters: the alphabet of the password generator.
letters_mixed_case == AsciiLowercase \cup AsciiUppercase \cup Digits

\* The alphabet of _generate_random_subdomain.
letters == AsciiLowercase \cup Digits

\* ''.join(...)
RECURSIVE Join(_)
Join(seq) == IF seq = <<>> THEN "" ELSE Head(seq) \o Join(Tail(seq))

\* The values _generate_random_password is let to return in the model.
PasswordSamples == { "kT3xWq8LmZ1p", "0000aaaaZZZZ" }

\* The values of the arguments the model explores.
BuildTimestampArgs == { None, "", "20250102030405" }

GithubPatArgs == { None, "ghp_0123456789" }

\* What datetime.now() returns during the call, as strftime("%Y%m%d%H%M%S")
\* and as isoformat() render it.
Clock == [stamp |-> "20261030102800", iso |-> "2026-10-30T10:28:00"]

ArgsFor(w, pat, ts) ==
    [workspace_id |-> w, repo_name |-> "org/repo", branch_name |-> "main",
     github_pat |-> pat, pool_name |-> "pool", for_pool |-> FALSE,
     build_timestamp |-> ts]

\* if not build_timestamp: build_timestamp = datetime.now().strftime(...)
DefaultedBuildTimestamp(given) == IF Falsy(given) THEN Clock.stamp ELSE given

ResolveBuildTimestamp ==
    /\ wl_pc = "build_timestamp"
    /\ build_timestamp' = DefaultedBuildTimestamp(args.build_timestamp)
    /\ wl_pc' = "subdomain"
    /\ UNCHANGED <<args, chosen, workspace_ids, objects, pod>>

\* One round of the generator expression of _generate_random_subdomain.
ChooseCharacter ==
    /\ wl_pc = "subdomain"
    /\ Len(chosen) < SubdomainLength
    /\ \E c \in letters \cap SampledCharacters : chosen' = Append(chosen, c)
    /\ UNCHANGED <<wl_pc, args, build_timestamp, workspace_ids, objects, pod>>

\* namespace = f"workspace-{workspace_id}"
NamespaceName(workspace_id) == "workspace-" \o workspace_id

\* Faulty variant of Fqdn: the dot between subdomain and domain is left
\* out.
Fqdn_unseparated(subdomain) == subdomain \o workspace_domain

\* fqdn = f"{subdomain}.{self.workspace_domain}"
Fqdn(subdomain) == subdomain \o "." \o workspace_domain

\* The subdomain is complete: namespace, fqdn and password are computed
\* and gathered in workspace_ids.
BuildWorkspaceIds ==
    /\ wl_pc = "subdomain"
    /\ Len(chosen) = SubdomainLength
    /\ \E password \in PasswordSamples :
        workspace_ids' =
            [namespace_name |-> NamespaceName(args.workspace_id),
             workspace_id |-> args.workspace_id,
             build_timestamp |-> build_timestamp,
             subdomain |-> Join(chosen),
             fqdn |-> Fqdn(Join(chosen)),
             password |-> password]
    /\ wl_pc' = "create_namespace"
    /\ UNCHANGED <<args, build_timestamp, chosen, objects, pod>>

\* The labels of the V1Namespace _create_namespace submits.
namespace_labels(ids, for_pool) ==
    [workspace_id |-> ids.workspace_id,
     app |-> "workspace",
     initialization |-> "in-progress",
     fqdn |-> ids.fqdn,
     type |-> IF for_pool THEN "pool" ELSE "workspace"]

\* The dictionary workspace_config of the call.
CallWorkspaceConfig ==
    [repo_name |-> args.repo_name,
     github_urls |-> <<"https://github.com/" \o args.repo_name>>,
     github_branches |-> IF Falsy(args.branch_name) THEN <<"main">>
                         ELSE <<args.branch_name>>,
     pool_name |-> args.pool_name]

\* The string_data of workspace-secret, as (key, value) pairs.
secret_data(ids, github_pat) ==
    << <<"password", ids.password>> >> \o
    (IF Falsy(github_pat) THEN <<>> ELSE << <<"github_token", github_pat>> >>)

\* The dictionary `info` of the workspace-info config map, as (key, value)
\* pairs; a list value contributes its elements.
info(ids, cfg) ==
    << <<"id", ids.workspace_id>>,
       <<"repositories", cfg.github_urls[1]>>,
       <<"branches", cfg.github_branches[1]>>,
       <<"subdomain", ids.subdomain>>,
       <<"fqdn", ids.fqdn>>,
       <<"url", "https://" \o ids.fqdn>>,
       <<"created", Clock.iso>>,
       <<"pool_name", cfg.pool_name>>,
       <<"password", ids.password>> >>

\* json.dumps of a dictionary: its text is made of the keys and the
\* values, in order.
RECURSIVE json_dumps(_)
json_dumps(pairs) ==
    IF pairs = <<>> THEN <<>>
    ELSE <<Head(pairs)[1], Head(pairs)[2]>> \o json_dumps(Tail(pairs))

\* The repository and tag prefix shared by the image references.
ImageRepository ==
    aws_account_id \o ".dkr.ecr.us-east-1.amazonaws.com/workspace-images:"

\* Faulty variant of _create_wrapper_dockerfile: the base image is named
\* by a floating tag.
_create_wrapper_dockerfile_floating(ids) ==
    << "cat > Dockerfile << 'EOF'",
       "FROM",
       ImageRepository \o "custom-user-" \o ids.namespace_name \o "-latest",
       "EXPOSE 8444",
       "ENTRYPOINT" >>

\* The text _create_wrapper_dockerfile returns, cut at the values it
\* interpolates.
_create_wrapper_dockerfile(ids) ==
    << "cat > Dockerfile << 'EOF'",
       "FROM",
       ImageRepository \o "custom-user-" \o ids.namespace_name \o "-" \o ids.build_timestamp,
       "EXPOSE 8444",
       "ENTRYPOINT" >>

\* The port of EXPOSE and of --bind-addr in the wrapper Dockerfile.
ExposedPort == 8444

BindPort == 8444

\* The ports of the service and of the backend of the ingress.
ServicePort == 8443

ServiceTargetPort == 8443

IngressBackendPort == 8443

\* The V1Service _create_service submits.
service(ids) ==
    [name |-> "workspace", namespace |-> ids.namespace_name,
     port |-> ServicePort, target_port |-> ServiceTargetPort,
     selector |-> "workspace"]

\* The V1Ingress _create_ingress submits, by its rule and its tls entry.
ingress(ids) ==
    [name |-> "workspace", namespace |-> ids.namespace_name,
     host |-> ids.fqdn,
     tls |-> [hosts |-> <<"*." \o workspace_domain>>,
              secret_name |-> "workspace-domain-wildcard-tls"],
     backend |-> [service |-> "workspace", port |-> IngressBackendPort]]

\* The text _create_wrapper_dockerfile_script binds to its local
\* init_script, cut at the values it interpolates: the creation of the two
\* build directories, the paths in the repository, the extraction of the
\* descriptor, the default base image.
CompileSection(cfg) ==
    << "mkdir -p /workspaces/.code-server-wrapper",
       "mkdir -p /workspaces/.user-dockerfile",
       "USER_REPO_PATH=",
       "/workspaces/" \o cfg.repo_name,
       "DOCKERFILE_PATH=",
       "DEVCONTAINER_JSON_PATH=",
       "jq",
       "FROM linuxserver/code-server:latest" >>

\* What a call hands back: a text, or None.
ReturnsText(text) == [is_none |-> FALSE, text |-> text]

ReturnsNone == [is_none |-> TRUE, text |-> <<>>]

\* _create_wrapper_dockerfile_script: the body binds the text and ends;
\* there is no return statement, the call evaluates to None.
_create_wrapper_dockerfile_script(ids, cfg) == ReturnsNone

\* if script: init_script += script
AppendIfTruthy(init_script, script) ==
    IF script.is_none \/ script.text = <<>> THEN init_script
    ELSE init_script \o script.text

\* What _create_init_script_configmap appends to the output of
\* generate_init_script: the wrapper script when it is truthy, then the
\* wrapper Dockerfile script.
init_script_appended(ids) ==
    AppendIfTruthy(
        AppendIfTruthy(<<>>, _create_wrapper_dockerfile_script(ids, CallWorkspaceConfig)),
        ReturnsText(_create_wrapper_dockerfile(ids)))

\* The text of install-features.sh: a literal without interpolation.
_create_feature_installation_script == <<"#!/bin/bash", "set -e">>

\* An environment variable with a literal value.
EnvVar(name, value) == [name |-> name, value |-> value, secret_key_ref |-> <<>>]

\* Faulty variant of EnvVarFromSecret: the password is looked up when the
\* container is described and embedded as a literal value.
EnvVarFromSecret_resolved(name, secret, key) ==
    [name |-> name,
     value |-> IF key = "password" THEN workspace_ids.password ELSE None,
     secret_key_ref |-> <<>>]

\* An environment variable taking its value from a key of a secret.
EnvVarFromSecret(name, secret, key) ==
    [name |-> name, value |-> None, secret_key_ref |-> <<secret, key>>]

_create_workspace_init_container ==
    [name |-> "init-workspace",
     image |-> "buildpack-deps:22.04-scm",
     args |-> <<>>,
     env |-> << EnvVarFromSecret("GITHUB_TOKEN", "workspace-secret", "github_token"),
                EnvVar("DOCKER_CONFIG", "/kaniko/.docker/") >>]

_create_base_image_kaniko_container(ids) ==
    [name |-> "build-base-image",
     image |-> "gcr.io/kaniko-project/executor:latest",
     args |-> << "--dockerfile=/workspace/Dockerfile",
                 "--context=/workspace",
                 "--destination=" \o ImageRepository \o "custom-user-"
                     \o ids.namespace_name \o "-" \o ids.build_timestamp >>,
     env |-> << EnvVar("DOCKER_CONFIG", "/kaniko/.docker/"),
                EnvVar("HTTP_TIMEOUT", "600s"),
                EnvVar("HTTPS_TIMEOUT", "600s") >>]

\* Faulty variant of _create_wrapper_kaniko_container: the tag takes a
\* timestamp of its own from the clock.
_create_wrapper_kaniko_container_own_time(ids) ==
    [name |-> "build-wrapper-image",
     image |-> "gcr.io/kaniko-project/executor:latest",
     args |-> << "--dockerfile=/workspace/Dockerfile",
                 "--context=/workspace",
                 "--destination=" \o ImageRepository \o "custom-wrapper-"
                     \o ids.namespace_name \o "-" \o Clock.stamp >>,
     env |-> << EnvVar("DOCKER_CONFIG", "/kaniko/.docker/"),
                EnvVar("HTTP_TIMEOUT", "600s"),
                EnvVar("HTTPS_TIMEOUT", "600s"),
                EnvVar("BASE_IMAGE", ImageRepository \o "custom-user-"
                     \o ids.namespace_name \o "-" \o ids.build_timestamp) >>]

_create_wrapper_kaniko_container(ids) ==
    [name |-> "build-wrapper-image",
     image |-> "gcr.io/kaniko-project/executor:latest",
     args |-> << "--dockerfile=/workspace/Dockerfile",
                 "--context=/workspace",
                 "--destination=" \o ImageRepository \o "custom-wrapper-"
                     \o ids.namespace_name \o "-" \o ids.build_timestamp >>,
     env |-> << EnvVar("DOCKER_CONFIG", "/kaniko/.docker/"),
                EnvVar("HTTP_TIMEOUT", "600s"),
                EnvVar("HTTPS_TIMEOUT", "600s"),
                EnvVar("BASE_IMAGE", ImageRepository \o "custom-user-"
                     \o ids.namespace_name \o "-" \o ids.build_timestamp) >>]

\* Faulty variant of _create_init_containers: the wrapper build is listed
\* before the base build.
_create_init_containers_wrapper_first(ids) ==
    << _create_workspace_init_container,
       _create_wrapper_kaniko_container(ids),
       _create_base_image_kaniko_container(ids) >>

_create_init_containers(ids) ==
    << _create_workspace_init_container,
       _create_base_image_kaniko_container(ids),
       _create_wrapper_kaniko_container(ids) >>

_create_code_server_container(ids) ==
    [name |-> "code-server",
     image |-> ImageRepository \o "custom-wrapper-" \o ids.namespace_name
                   \o "-" \o ids.build_timestamp,
     args |-> <<>>,
     env |-> << EnvVar("PUID", "1000"),
                EnvVar("PGID", "1000"),
                EnvVar("TZ", "UTC"),
                EnvVar("DEFAULT_WORKSPACE", "/workspaces"),
                EnvVar("VSCODE_EXTENSIONS", "/config/extensions"),
                EnvVar("CODE_SERVER_EXTENSIONS_DIR", "/config/extensions"),
                EnvVar("VSCODE_USER_DATA_DIR", "/config/data"),
                EnvVar("CS_DISABLE_GETTING_STARTED_OVERRIDE", "true"),
                EnvVar("VSCODE_PROXY_URI",
                       "https://" \o ids.subdomain \o "-{{port}}." \o workspace_domain \o "/"),
                EnvVarFromSecret("PASSWORD", "workspace-secret", "password"),
                EnvVar("DOCKER_HOST", "unix:///var/run/docker.sock") >>]

_create_port_detector_container ==
    [name |-> "port-detector",
     image |-> "python:3.9-slim",
     args |-> <<>>,
     env |-> <<>>]

\* The pod template of the deployment.
deployment(ids) ==
    [init_containers |-> _create_init_containers(ids),
     containers |-> << _create_code_server_container(ids),
                       _create_port_detector_container >>]

\* The platform calls of initialize_workspace, in the order it issues
\* them. Each is a blocking request of its own.
PlatformCalls ==
    << "create_namespace", "create_workspace_pvc", "create_registry_pvc",
       "create_workspace_secret", "create_init_script_configmap",
       "create_feature_installation_configmap",
       "create_workspace_info_configmap",
       "read_port_detector_configmap", "copy_port_detector_configmap",
       "read_wildcard_certificate", "copy_wildcard_certificate",
       "create_registry_credentials", "create_service_account",
       "create_deployment", "create_service", "create_ingress" >>

\* The reads of the two copy stages, and all their calls: these stages
\* catch every exception and return.
SharedReads == {"read_port_detector_configmap", "read_wildcard_certificate"}

TolerantCalls ==
    SharedReads \cup {"copy_port_detector_configmap", "copy_wildcard_certificate"}

PositionOf(call) == CHOOSE i \in 1..Len(PlatformCalls) : PlatformCalls[i] = call

\* Where the call goes on once the i-th platform call is over.
CallAt(i) == IF i > Len(PlatformCalls) THEN "return True" ELSE PlatformCalls[i]

\* What follows `call`: the next call when it returned; when it raised,
\* the handler of initialize_workspace (return False), or for a copy stage
\* the call after the stage.
After(call, ok) ==
    IF ok THEN CallAt(PositionOf(call) + 1)
    ELSE IF call \in SharedReads THEN CallAt(PositionOf(call) + 2)
    ELSE IF call \in TolerantCalls THEN CallAt(PositionOf(call) + 1)
    ELSE "return False"

\* The content of the object a call submits, for the calls whose object
\* the model describes.
SubmittedBy(call) ==
    CASE call = "create_namespace" ->
            [namespace |-> namespace_labels(workspace_ids, args.for_pool)]
      [] call = "create_workspace_secret" ->
            [secret |-> secret_data(workspace_ids, args.github_pat)]
      [] call = "create_init_script_configmap" ->
            [init |-> init_script_appended(workspace_ids)]
      [] call = "create_feature_installation_configmap" ->
            [feature |-> _create_feature_installation_script]
      [] call = "create_workspace_info_configmap" ->
            [info |-> json_dumps(info(workspace_ids, CallWorkspaceConfig))]
      [] call = "create_deployment" ->
            [workload |-> deployment(workspace_ids)]
      [] call = "create_service" ->
            [service |-> service(workspace_ids)]
      [] call = "create_ingress" ->
            [ingress |-> ingress(workspace_ids)]
      [] OTHER -> <<>>

\* The objects submitted so far, with those of one more call.
With(submitted, more) ==
    [f \in DOMAIN submitted \cup DOMAIN more |->
        IF f \in DOMAIN more THEN more[f] ELSE submitted[f]]

\* One platform call of initialize_workspace: the platform stores the
\* object and the call returns, or the call raises. Once the secret is
\* stored, generate_init_script of utils.workspace_init returns the
\* script, or raises and the call returns False.
CreateObjects ==
    /\ \E i \in 1..Len(PlatformCalls) : wl_pc = PlatformCalls[i]
    /\ \E ok, generated \in BOOLEAN :
        /\ objects' = IF ok THEN With(objects, SubmittedBy(wl_pc)) ELSE objects
        /\ wl_pc' = IF ok /\ wl_pc = "create_workspace_secret" /\ ~generated
                    THEN "return False"
                    ELSE After(wl_pc, ok)
    /\ UNCHANGED <<args, build_timestamp, chosen, workspace_ids, pod>>

\* The objects whose content the model describes.
ObjectFields ==
    {"namespace", "secret", "init", "feature", "info", "workload", "service",
     "ingress"}

\* The object named `field` has been submitted.
Has(field) == field \in DOMAIN objects

(* --------------------- the pod of the deployment ---------------------- *)

\* How many times the init containers of the pod fail in the model.
MaxInitFailures == 1

InitContainerNames ==
    [i \in 1..Len(objects.workload.init_containers) |->
        objects.workload.init_containers[i].name]

\* The platform runs the init containers one at a time, in the order of
\* the list: the one to start is the first that has not succeeded yet.
NextInitContainer ==
    CHOOSE i \in 1..Len(InitContainerNames) :
        /\ InitContainerNames[i] \notin pod.succeeded
        /\ \A j \in 1..(i - 1) : InitContainerNames[j] \in pod.succeeded

StartInitContainer ==
    /\ Has("workload")
    /\ pod.phase = "Pending"
    /\ pod.running = "none"
    /\ \E i \in 1..Len(InitContainerNames) : InitContainerNames[i] \notin pod.succeeded
    /\ pod' = [pod EXCEPT !.running = InitContainerNames[NextInitContainer],
                          !.started = Append(@, InitContainerNames[NextInitContainer])]
    /\ UNCHANGED <<wl_pc, args, build_timestamp, chosen, workspace_ids, objects>>

\* The running init container exits: with status 0, or with a failure,
\* after which the platform starts it again.
FinishInitContainer ==
    /\ Has("workload")
    /\ pod.phase = "Pending"
    /\ pod.running # "none"
    /\ \E ok \in BOOLEAN :
        /\ ~ok => pod.failures < MaxInitFailures
        /\ pod' = [pod EXCEPT !.running = "none",
                              !.succeeded = IF ok THEN @ \cup {pod.running} ELSE @,
                              !.failures = IF ok THEN @ ELSE @ + 1]
    /\ UNCHANGED <<wl_pc, args, build_timestamp, chosen, workspace_ids, objects>>

\* Every init container has succeeded: the containers of the pod start.
StartContainers ==
    /\ Has("workload")
    /\ pod.phase = "Pending"
    /\ pod.running = "none"
    /\ \A i \in 1..Len(InitContainerNames) : InitContainerNames[i] \in pod.succeeded
    /\ pod' = [pod EXCEPT !.started =
                 @ \o [i \in 1..Len(objects.workload.containers) |->
                          objects.workload.containers[i].name],
                          !.phase = "Running"]
    /\ UNCHANGED <<wl_pc, args, build_timestamp, chosen, workspace_ids, objects>>

NoPod ==
    [phase |-> "Pending", started |-> <<>>, succeeded |-> {}, running |-> "none",
     failures |-> 0]

\* The workload model at rest, for the specifications that do not use it.
WorkloadOff ==
    /\ wl_pc = "off"
    /\ args = ArgsFor("w1", None, None)
    /\ build_timestamp = None
    /\ chosen = <<>>
    /\ workspace_ids = <<>>
    /\ objects = <<>>
    /\ pod = NoPod

(* ------------------------ install-features.sh ------------------------- *)

\* How many times the installer is run in the model.
MaxRuns == 2

\* The pieces of shell text that matter to quoting: a double quote, a
\* double quote preceded by a backslash, a single quote.
DQ == "\""

BSDQ == "\\\""

SQ == "'"

\* The body of feature_exists as written in the triple-quoted literal.
FeatureExistsLine ==
    << "echo ", DQ, "$FEATURES_JSON", DQ, " | grep -q ", DQ, BSDQ, "$1", BSDQ, DQ >>

\* The assignment to `result` in get_feature_option as written in the
\* triple-quoted literal.
GetFeatureOptionLine ==
    << "result=$(echo ", DQ, "$FEATURES_JSON", DQ,
       " | grep -o ", DQ, BSDQ, "$feature", BSDQ, "[^}]*", DQ,
       " | grep -o ", DQ, BSDQ, "$option", BSDQ, "[^,}]*", DQ,
       " | grep -o ", DQ, BSDQ, "[^", BSDQ, "]*", BSDQ, "$", DQ,
       " | tr -d ", SQ, DQ, SQ,
       " || echo ", DQ, DQ, ")" >>

\* The text Python makes of a non-raw string literal: a backslash before a
\* double quote is dropped.
PythonLiteral(tokens) ==
    [i \in 1..Len(tokens) |-> IF tokens[i] = BSDQ THEN DQ ELSE tokens[i]]

\* The quoting state of the shell after one more piece of text.
QuoteStep(state, token) ==
    CASE token = DQ /\ state = "none" -> "double"
      [] token = DQ /\ state = "double" -> "none"
      [] token = SQ /\ state = "none" -> "single"
      [] token = SQ /\ state = "single" -> "none"
      [] OTHER -> state

\* The quoting state of the shell at the end of a text read from the
\* unquoted state.
RECURSIVE QuoteStateAfter(_, _)
QuoteStateAfter(state, tokens) ==
    IF tokens = <<>> THEN state
    ELSE QuoteStateAfter(QuoteStep(state, Head(tokens)), Tail(tokens))

\* A helper definition cannot be parsed: a line of its body leaves a
\* quoted string open, the quotes of the text that follows pair up
\* differently, and the end of the file is reached inside a string.
SyntaxError ==
    \/ QuoteStateAfter("none", PythonLiteral(FeatureExistsLine)) # "none"
    \/ QuoteStateAfter("none", PythonLiteral(GetFeatureOptionLine)) # "none"

\* The feature ids for which the script has an installation procedure.
RecognizedFeatures ==
    { "docker", "docker-in-docker", "docker-from-docker", "node", "python",
      "go", "java", "rust", "dotnet", "php", "common-utils", "github-cli",
      "azure-cli", "aws-cli", "terraform", "kubectl", "kubernetes-tools" }

\* The feature ids and the options the model builds feature sets from.
SampleFeatureIds == { "node", "nodejs-extras", "foo" }

SampleOptions == { [version |-> "latest"], [version |-> "18"], [python |-> "node"] }

\* /workspaces/.devcontainer-features: absent, or a mapping from feature
\* ids to options.
NoFeaturesFile == [present |-> FALSE, features |-> <<>>]

FeaturesFiles ==
    { NoFeaturesFile } \cup
    { [present |-> TRUE, features |-> f] :
        f \in UNION { [S -> SampleOptions] : S \in SUBSET SampleFeatureIds } }

\* The tools found in the container before the installer runs.
SampleTools == { "node", "docker-compose" }

\* The script ends with the given status.
Exit(status) ==
    /\ exit_status' = status
    /\ inst_pc' = "exited"

\* The container starts (again) and runs install-features.sh.
StartInstaller ==
    /\ inst_pc \in {"idle", "exited"}
    /\ runs < MaxRuns
    /\ runs' = runs + 1
    /\ inst_pc' = "check_features_file"
    /\ exit_status' = -1
    /\ install_steps' = {}
    /\ FEATURES_JSON' = <<>>
    /\ installed_before' = installed
    /\ UNCHANGED <<features_file, installed>>

\* Faulty variant of OnMissingFeaturesFile: the script goes on.
OnMissingFeaturesFile_goes_on ==
    /\ inst_pc' = "read_features"
    /\ UNCHANGED exit_status

\* echo "No features file found, skipping feature installation"; exit 0
OnMissingFeaturesFile == Exit(0)

\* if [ ! -f "$FEATURES_FILE" ]; then ... fi
CheckFeaturesFile ==
    /\ inst_pc = "check_features_file"
    /\ IF ~features_file.present
       THEN OnMissingFeaturesFile
       ELSE inst_pc' = "read_features" /\ UNCHANGED exit_status
    /\ UNCHANGED <<features_file, FEATURES_JSON, install_steps, installed,
                   installed_before, runs>>

\* cat "$FEATURES_FILE"; FEATURES_JSON=$(cat "$FEATURES_FILE"), under
\* set -e.
ReadFeatures ==
    /\ inst_pc = "read_features"
    /\ IF features_file.present
       THEN /\ FEATURES_JSON' = features_file.features
            /\ inst_pc' = "define_helpers"
            /\ UNCHANGED exit_status
       ELSE /\ Exit(1)
            /\ UNCHANGED FEATURES_JSON
    /\ UNCHANGED <<features_file, install_steps, installed, installed_before, runs>>

\* Faulty variant of DefineHelpers: the definitions are parsed and the
\* script goes on to its installation blocks, where the node block installs
\* node and adds its lines to /etc/profile.d/nvm.sh without testing whether
\* node is there.
DefineHelpers_parsed ==
    /\ inst_pc = "define_helpers"
    /\ IF "node" \in DOMAIN FEATURES_JSON
       THEN /\ install_steps' = install_steps \cup { <<"node", "lts">> }
            /\ installed' = installed \cup {"node"}
       ELSE UNCHANGED <<install_steps, installed>>
    /\ Exit(0)
    /\ UNCHANGED <<features_file, FEATURES_JSON, installed_before, runs>>

\* The shell reads the definitions of feature_exists and of
\* get_feature_option; a definition it cannot parse ends the script with
\* status 2, before any of the installation blocks is read.
DefineHelpers ==
    /\ inst_pc = "define_helpers"
    /\ IF SyntaxError
       THEN Exit(2)
       ELSE inst_pc' = "install_features" /\ UNCHANGED exit_status
    /\ UNCHANGED <<features_file, FEATURES_JSON, install_steps, installed,
                   installed_before, runs>>

\* The installer model at rest, for the specifications that do not use it.
InstallerOff ==
    /\ inst_pc = "off"
    /\ features_file = NoFeaturesFile
    /\ FEATURES_JSON = <<>>
    /\ exit_status = -1
    /\ install_steps = {}
    /\ installed = {}
    /\ installed_before = {}
    /\ runs = 0

(* --------------------- the compile section ---------------------------- *)

\* How many times the compile section is run on a repository in the model.
MaxCompiles == 2

\* A JSON member, or a file of the repository, that is not there / that is
\* there with a value.
Absent == [present |-> FALSE]

Value(v) == [present |-> TRUE, value |-> v]

\* The descriptors of the model: every member absent or present, the two
\* extension lists absent, empty or populated.
Descriptors ==
    LET Optional(v) == { Absent, Value(v) }
    IN  [ extensions : { Absent, Value(<<>>),
                         Value(<<"ms-python.python", "golang.go">>) },
          customizations :
              { Absent,
                Value([vscode |-> Value([extensions |-> Value(<<>>),
                                         settings |-> Absent])]),
                Value([vscode |-> Value([extensions |-> Value(<<"dbaeumer.vscode-eslint">>),
                                         settings |-> Value("{nested settings}")])]) },
          settings : Optional("{settings}"),
          features : Optional("{features}"),
          forwardPorts : Optional(<<"3000", "8080">>),
          containerEnv : Optional(<< <<"A", "1">> >>),
          remoteEnv : Optional(<< <<"B", "2">> >>),
          remoteUser : Optional("vscode"),
          containerUser : Optional("root"),
          postCreateCommand : Optional("npm install"),
          postStartCommand : Optional("npm start") ]

\* The repositories of the model, as the remote holds them: with or
\* without a Dockerfile, with or without a descriptor.
Repositories ==
    [ dockerfile : { Absent, Value(<<"FROM ubuntu:22.04">>) },
      descriptor : {Absent} \cup { Value(d) : d \in Descriptors } ]

\* [ ! -d "$USER_REPO_PATH" ]: no directory, hence neither file.
NoDirectory == [directory |-> FALSE, dockerfile |-> Absent, descriptor |-> Absent]

\* The directory after a git clone that succeeded.
Cloned(r) ==
    [directory |-> TRUE, dockerfile |-> r.dockerfile, descriptor |-> r.descriptor]

\* The files the script writes, by path under /workspaces.
Artifact ==
    [ dockerfile     |-> ".user-dockerfile/Dockerfile",
      descriptor     |-> ".user-dockerfile/devcontainer.json",
      extensions     |-> ".extensions-list",
      settings       |-> ".vscode/settings.json",
      features       |-> ".devcontainer-features",
      ports          |-> ".forward-ports",
      customizations |-> ".customizations",
      container_env  |-> ".container-env",
      remote_env     |-> ".remote-env",
      user_config    |-> ".user-config",
      post_create    |-> "post-create-command.sh",
      post_start     |-> "post-start-command.sh" ]

\* echo "FROM linuxserver/code-server:latest"
DefaultBaseImage == <<"FROM linuxserver/code-server:latest">>

\* jq '.a.b' : the member at the end of the path, null propagating.
RECURSIVE JqPath(_, _)
JqPath(member, path) ==
    IF path = <<>> \/ ~member.present THEN member
    ELSE JqPath(member.value[Head(path)], Tail(path))

\* $(jq ... 2>/dev/null): the lines jq prints; nothing when the command is
\* not found.
Output(lines) == IF jq THEN lines ELSE <<>>

\* jq -r '<path>[]? // empty' : the elements of the list, one per line.
JqElements(d, path) ==
    LET m == JqPath(Value(d), path)
    IN  Output(IF m.present THEN m.value ELSE <<>>)

\* jq -r '<path> // empty' : the value, if any.
JqValue(d, path) ==
    LET m == JqPath(Value(d), path)
    IN  Output(IF m.present THEN <<m.value>> ELSE <<>>)

\* jq -r '<path> // empty | to_entries[] | "\(.key)=\(.value)"'
JqEntries(d, path) ==
    LET m == JqPath(Value(d), path)
    IN  Output(IF m.present
               THEN [i \in 1..Len(m.value) |->
                        m.value[i][1] \o "=" \o m.value[i][2]]
               ELSE <<>>)

\* echo "$X" > path
Redirect(fs, path, lines) ==
    [p \in DOMAIN fs \cup {path} |-> IF p = path THEN lines ELSE fs[p]]

\* echo "$X" >> path
RedirectAppend(fs, path, lines) ==
    [p \in DOMAIN fs \cup {path} |->
        IF p # path THEN fs[p]
        ELSE IF path \in DOMAIN fs THEN fs[path] \o lines ELSE lines]

\* if [ ! -z "$X" ]; then echo "$X" > path; fi, and on to the next step.
WriteIfNonEmpty(lines, path, next) ==
    /\ IF lines # <<>>
       THEN /\ files' = Redirect(files, path, lines)
            /\ written' = written \cup {path}
       ELSE UNCHANGED <<files, written>>
    /\ comp_pc' = next
    /\ UNCHANGED <<repo, remote, image_jq, jq, directories, files_before, inputs_before, compiles>>

\* The descriptor the script reads.
Json == repo.descriptor.value

\* init.sh reaches the compile section (again: the init container is
\* restarted, or the pod is). A restarted container has the file system
\* of its image, so jq is there only when the image ships it; /workspaces
\* is a volume and keeps its files.
\* mkdir -p /workspaces/.code-server-wrapper; mkdir -p /workspaces/.user-dockerfile
StartCompile ==
    /\ comp_pc \in {"idle", "done"}
    /\ compiles < MaxCompiles
    /\ compiles' = compiles + 1
    /\ directories' = directories \cup {".code-server-wrapper", ".user-dockerfile"}
    /\ comp_pc' = "clone"
    /\ written' = {}
    /\ files_before' = files
    /\ inputs_before' = [repo |-> repo, jq |-> jq]
    /\ jq' = image_jq
    /\ UNCHANGED <<repo, remote, image_jq, files>>

\* if [ ! -d "$USER_REPO_PATH" ]; then cd /workspaces; git clone -b BRANCH
\* URL repo_name; ...; fi: the clone brings the remote's files, or fails
\* and leaves no directory; the script goes on either way.
CloneIfNeeded ==
    /\ comp_pc = "clone"
    /\ IF repo.directory
       THEN UNCHANGED repo
       ELSE \E cloned \in BOOLEAN :
               repo' = IF cloned THEN Cloned(remote) ELSE NoDirectory
    /\ comp_pc' = "check_dockerfile"
    /\ UNCHANGED <<remote, image_jq, jq, files, directories, written, files_before,
                   inputs_before, compiles>>

\* if [ -f "$DOCKERFILE_PATH" ]; then cp ... else echo "FROM ..." > ... fi
CheckDockerfile ==
    /\ comp_pc = "check_dockerfile"
    /\ IF repo.dockerfile.present
       THEN /\ files' = Redirect(files, Artifact.dockerfile, repo.dockerfile.value)
            /\ comp_pc' = "check_descriptor"
       ELSE /\ files' = Redirect(files, Artifact.dockerfile, DefaultBaseImage)
            /\ comp_pc' = "done"
    /\ written' = written \cup {Artifact.dockerfile}
    /\ UNCHANGED <<repo, remote, image_jq, jq, directories, files_before, inputs_before, compiles>>

\* if [ -f "$DEVCONTAINER_JSON_PATH" ]; then cp ... ; the extraction; fi,
\* inside the branch of the Dockerfile found.
CheckDescriptor ==
    /\ comp_pc = "check_descriptor"
    /\ IF repo.descriptor.present
       THEN /\ files' = Redirect(files, Artifact.descriptor, <<Json>>)
            /\ written' = written \cup {Artifact.descriptor}
            /\ comp_pc' = "install_jq"
       ELSE /\ comp_pc' = "done"
            /\ UNCHANGED <<files, written>>
    /\ UNCHANGED <<repo, remote, image_jq, jq, directories, files_before, inputs_before, compiles>>

\* if ! command -v jq; then apt-get update && apt-get install -y jq tmux; fi
\* The installation puts jq on the search path, or fails and leaves it
\* missing; the script goes on either way.
InstallJq ==
    /\ comp_pc = "install_jq"
    /\ IF jq THEN UNCHANGED jq ELSE jq' \in BOOLEAN
    /\ comp_pc' = "extensions"
    /\ UNCHANGED <<repo, remote, image_jq, files, directories, written, files_before,
                   inputs_before, compiles>>

\* EXTENSIONS after lines 1157-1160.
EXTENSIONS ==
    LET primary == JqElements(Json, <<"extensions">>)
    IN  IF primary = <<>>
        THEN JqElements(Json, <<"customizations", "vscode", "extensions">>)
        ELSE primary

\* The members extracted by one jq call and one test each: the step, the
\* value of the shell variable, the file, the step that follows.
Extraction ==
    { [at |-> "extensions", lines |-> EXTENSIONS,
       path |-> Artifact.extensions, next |-> "settings"],
      [at |-> "features", lines |-> JqValue(Json, <<"features">>),
       path |-> Artifact.features, next |-> "ports"],
      [at |-> "ports", lines |-> JqElements(Json, <<"forwardPorts">>),
       path |-> Artifact.ports, next |-> "customizations"],
      [at |-> "customizations", lines |-> JqValue(Json, <<"customizations">>),
       path |-> Artifact.customizations, next |-> "container_env"],
      [at |-> "container_env", lines |-> JqEntries(Json, <<"containerEnv">>),
       path |-> Artifact.container_env, next |-> "remote_env"],
      [at |-> "remote_env", lines |-> JqEntries(Json, <<"remoteEnv">>),
       path |-> Artifact.remote_env, next |-> "users"],
      [at |-> "post_create", lines |-> JqValue(Json, <<"postCreateCommand">>),
       path |-> Artifact.post_create, next |-> "post_start"],
      [at |-> "post_start", lines |-> JqValue(Json, <<"postStartCommand">>),
       path |-> Artifact.post_start, next |-> "done"] }

\* X=$(jq ...); if [ ! -z "$X" ]; then echo "$X" > file; fi
ExtractMember ==
    /\ repo.descriptor.present
    /\ \E e \in Extraction :
        /\ comp_pc = e.at
        /\ WriteIfNonEmpty(e.lines, e.path, e.next)

\* SETTINGS=$(jq -r '.settings // .customizations.vscode.settings // empty');
\* mkdir -p /workspaces/.vscode; echo "$SETTINGS" > ...
ExtractSettings ==
    /\ comp_pc = "settings"
    /\ LET primary  == JqValue(Json, <<"settings">>)
           SETTINGS ==
               IF primary = <<>>
               THEN JqValue(Json, <<"customizations", "vscode", "settings">>)
               ELSE primary
       IN  IF SETTINGS # <<>>
           THEN /\ directories' = directories \cup {".vscode"}
                /\ files' = Redirect(files, Artifact.settings, SETTINGS)
                /\ written' = written \cup {Artifact.settings}
           ELSE UNCHANGED <<directories, files, written>>
    /\ comp_pc' = "features"
    /\ UNCHANGED <<repo, remote, image_jq, jq, files_before, inputs_before, compiles>>

\* REMOTE_USER is written with >, CONTAINER_USER is added with >>.
ExtractUsers ==
    /\ comp_pc = "users"
    /\ LET REMOTE_USER    == JqValue(Json, <<"remoteUser">>)
           CONTAINER_USER == JqValue(Json, <<"containerUser">>)
           after_remote ==
               IF REMOTE_USER # <<>>
               THEN Redirect(files, Artifact.user_config,
                             <<"REMOTE_USER=" \o REMOTE_USER[1]>>)
               ELSE files
       IN  /\ files' =
               IF CONTAINER_USER # <<>>
               THEN RedirectAppend(after_remote, Artifact.user_config,
                                   <<"CONTAINER_USER=" \o CONTAINER_USER[1]>>)
               ELSE after_remote
           /\ written' =
               IF REMOTE_USER # <<>> \/ CONTAINER_USER # <<>>
               THEN written \cup {Artifact.user_config} ELSE written
    /\ comp_pc' = "post_create"
    /\ UNCHANGED <<repo, remote, image_jq, jq, directories, files_before, inputs_before, compiles>>

\* The compiler model at rest, for the specifications that do not use it.
CompilerOff ==
    /\ comp_pc = "off"
    /\ repo = NoDirectory
    /\ remote = [dockerfile |-> Absent, descriptor |-> Absent]
    /\ image_jq = FALSE
    /\ files = <<>>
    /\ directories = {}
    /\ written = {}
    /\ files_before = <<>>
    /\ inputs_before = [repo |-> NoDirectory, jq |-> FALSE]
    /\ compiles = 0
    /\ jq = FALSE

(* ------------------- the ENTRYPOINT of the wrapper image -------------- *)

\* How many times the container is started in the model.
MaxStarts == 2

\* The elements of the && list in the ENTRYPOINT, in the order written:
\* four files run if present, then the editor.
FeatureInstaller == "/workspaces/install-features.sh"

\* The element followed by & in the list.
LifecycleDaemon == "/workspaces/run-lifecycle.sh"

Editor == "/usr/bin/code-server"

EntrypointList ==
    << FeatureInstaller, "/workspaces/setup-env.sh",
       "/workspaces/install-extensions.sh", LifecycleDaemon, Editor >>

OptionalFiles == { EntrypointList[i] : i \in 1..4 }

\* The exit statuses of the model: success, failure, and the status of a
\* script the shell cannot parse.
ExitStatuses == { 0, 1, 2 }

Started(cmd) == [event |-> "start", cmd |-> cmd]

Ended(cmd, status) == [event |-> "end", cmd |-> cmd, status |-> status]

\* Faulty variant of AndThen: the elements are joined with ; and the next
\* one is read whatever the status.
AndThen_semicolon(status) ==
    /\ ep_status' = status
    /\ ep_at' = ep_at + 1
    /\ ep_phase' = "test"

\* a && b : with the left side ended, the shell reads the right side if
\* the status is 0; otherwise the list, and with it bash -c, ends with
\* that status.
AndThen(status) ==
    /\ ep_status' = status
    /\ IF status = 0
       THEN ep_at' = ep_at + 1 /\ ep_phase' = "test"
       ELSE ep_phase' = "exited" /\ UNCHANGED ep_at

\* The container starts (again): bash -c reads the list from its first
\* element.
StartEntrypoint ==
    /\ ep_phase \in {"idle", "exited"}
    /\ starts < MaxStarts
    /\ starts' = starts + 1
    /\ ep_phase' = "test"
    /\ ep_at' = 1
    /\ ep_log' = <<>>
    /\ ep_status' = 0
    /\ lifecycle' = "none"
    /\ UNCHANGED ep_files

\* if [ -f file ]; then ...; fi for a file run in the foreground: present,
\* it is started; absent, the if command ends with status 0.
TestFile ==
    /\ ep_phase = "test"
    /\ ep_at \in 1..4
    /\ EntrypointList[ep_at] # LifecycleDaemon
    /\ IF EntrypointList[ep_at] \in ep_files
       THEN /\ ep_phase' = "run"
            /\ ep_log' = Append(ep_log, Started(EntrypointList[ep_at]))
            /\ UNCHANGED <<ep_at, ep_status>>
       ELSE /\ AndThen(0)
            /\ UNCHANGED ep_log
    /\ UNCHANGED <<ep_files, lifecycle, starts>>

\* The element the list runs with `source`: its commands run in the shell
\* of bash -c itself.
Sourced == {"/workspaces/setup-env.sh"}

\* The file run in the foreground ends; its status is that of the if
\* command. A sourced file may also end by `exit`: the shell of bash -c
\* ends there with that status, whatever it is, and reads no further
\* element of the list.
EndFile ==
    /\ ep_phase = "run"
    /\ \E status \in ExitStatuses, exits \in BOOLEAN :
        /\ exits => EntrypointList[ep_at] \in Sourced
        /\ ep_log' = Append(ep_log, Ended(EntrypointList[ep_at], status))
        /\ IF exits
           THEN /\ ep_status' = status
                /\ ep_phase' = "exited"
                /\ UNCHANGED ep_at
           ELSE AndThen(status)
    /\ UNCHANGED <<ep_files, lifecycle, starts>>

\* if [ -f /workspaces/run-lifecycle.sh ]; then /workspaces/run-lifecycle.sh & fi
\* : present, the file is started in the background and the status is 0;
\* absent, the status is 0.
TestLifecycle ==
    /\ ep_phase = "test"
    /\ ep_at \in 1..4
    /\ EntrypointList[ep_at] = LifecycleDaemon
    /\ IF EntrypointList[ep_at] \in ep_files
       THEN /\ ep_log' = Append(ep_log, Started(EntrypointList[ep_at]))
            /\ lifecycle' = "running"
       ELSE UNCHANGED <<ep_log, lifecycle>>
    /\ AndThen(0)
    /\ UNCHANGED <<ep_files, starts>>

\* The background job ends, with any status; the shell does not wait for
\* it.
EndLifecycle ==
    /\ lifecycle = "running"
    /\ ep_phase # "exited"
    /\ \E status \in ExitStatuses :
        ep_log' = Append(ep_log, Ended(LifecycleDaemon, status))
    /\ lifecycle' = "ended"
    /\ UNCHANGED <<ep_phase, ep_at, ep_files, ep_status, starts>>

\* /usr/bin/code-server --bind-addr 0.0.0.0:8444 --auth password ...
LaunchEditor ==
    /\ ep_phase = "test"
    /\ ep_at = 5
    /\ ep_phase' = "editor"
    /\ ep_log' = Append(ep_log, Started(Editor))
    /\ UNCHANGED <<ep_at, ep_files, ep_status, lifecycle, starts>>

\* The editor ends, and bash -c with it.
EndEditor ==
    /\ ep_phase = "editor"
    /\ \E status \in ExitStatuses :
        /\ ep_log' = Append(ep_log, Ended(Editor, status))
        /\ ep_status' = status
    /\ ep_phase' = "exited"
    /\ UNCHANGED <<ep_at, ep_files, lifecycle, starts>>

\* The entrypoint model at rest, for the specifications that do not use it.
EntrypointOff ==
    /\ ep_phase = "off"
    /\ ep_at = 0
    /\ ep_files = {}
    /\ ep_log = <<>>
    /\ ep_status = 0
    /\ lifecycle = "none"
    /\ starts = 0

(* ------------------------- specification ------------------------------ *)

InitFor(ids) ==
    /\ clients = ids
    /\ nsPhase = [n \in NamespaceNames |->
                    IF n = SystemNamespace THEN "active" ELSE "absent"]
    /\ nsLabel = [n \in NamespaceNames |-> "none"]
    /\ nsObjs = [n \in NamespaceNames |->
                   IF n = SystemNamespace THEN SharedObjects ELSE {}]
    /\ pc = [w \in WorkspaceIds |-> "idle"]
    /\ result = [w \in WorkspaceIds |-> "none"]
    /\ log = [w \in WorkspaceIds |-> <<>>]
    /\ max_retries = [w \in WorkspaceIds |-> MaxRetries]
    /\ polls = [w \in WorkspaceIds |-> 0]
    /\ apiErrors = [w \in WorkspaceIds |-> 0]
    /\ report = [w \in WorkspaceIds |-> "none"]
    /\ startPhase = [w \in WorkspaceIds |-> "absent"]
    /\ op = [w \in WorkspaceIds |-> "none"]
    /\ prev = [w \in WorkspaceIds |-> FALSE]
    /\ workspace_config = DefaultWorkspaceConfig

\* One caller, for a workspace id of its own or for the id "system".
Callers == {{"w1"}, {"system"}}

Init ==
    /\ \E ids \in Callers : InitFor(ids)
    /\ ncalls = [w \in WorkspaceIds |-> 0]
    /\ WorkloadOff
    /\ InstallerOff
    /\ CompilerOff
    /\ EntrypointOff

Next ==
    \E w \in WorkspaceIds :
        \/ Call_initialize_workspace(w)
        \/ initialize_workspace(w)
        \/ Call_cleanup_failed_workspace(w)
        \/ _cleanup_failed_workspace(w)
        \/ PlatformFinalizeNamespace(w)

Spec == Init /\ [][Next]_vars

\* Two callers whose calls interleave. Each has one call left:
\* initialize_workspace or the teardown. The second caller uses another
\* workspace id of its own, or the id "system". The shared namespace holds
\* the shared assets; no other namespace exists.
ConcurrentCallers == {{"w1", "w2"}, {"w1", "system"}}

InitConc ==
    /\ \E ids \in ConcurrentCallers : InitFor(ids)
    /\ ncalls = [w \in WorkspaceIds |-> MaxCalls - 1]
    /\ WorkloadOff
    /\ InstallerOff
    /\ CompilerOff
    /\ EntrypointOff

SpecConc == InitConc /\ [][Next]_vars

\* One initialize_workspace call from its arguments to its return, each
\* platform call returning or raising, and the pod the platform runs once
\* the deployment is submitted. The content of the objects depends on the
\* workspace id through the namespace name alone: one id is followed.
WorkloadIds == {"w1"}

InitWorkload ==
    /\ InitFor({})
    /\ ncalls = [w \in WorkspaceIds |-> 0]
    /\ \E w \in WorkloadIds, pat \in GithubPatArgs, ts \in BuildTimestampArgs :
          args = ArgsFor(w, pat, ts)
    /\ wl_pc = "build_timestamp"
    /\ build_timestamp = args.build_timestamp
    /\ chosen = <<>>
    /\ workspace_ids = <<>>
    /\ objects = <<>>
    /\ pod = NoPod
    /\ InstallerOff
    /\ CompilerOff
    /\ EntrypointOff

orchestratorVars ==
    <<nsPhase, nsLabel, nsObjs, clients, pc, result, log, max_retries, polls,
      apiErrors, report, startPhase, ncalls, op, prev, workspace_config>>

NextWorkload ==
    \/ ResolveBuildTimestamp /\ UNCHANGED <<orchestratorVars, installerVars, compilerVars, entrypointVars>>
    \/ ChooseCharacter /\ UNCHANGED <<orchestratorVars, installerVars, compilerVars, entrypointVars>>
    \/ BuildWorkspaceIds /\ UNCHANGED <<orchestratorVars, installerVars, compilerVars, entrypointVars>>
    \/ CreateObjects /\ UNCHANGED <<orchestratorVars, installerVars, compilerVars, entrypointVars>>
    \/ StartInitContainer /\ UNCHANGED <<orchestratorVars, installerVars, compilerVars, entrypointVars>>
    \/ FinishInitContainer /\ UNCHANGED <<orchestratorVars, installerVars, compilerVars, entrypointVars>>
    \/ StartContainers /\ UNCHANGED <<orchestratorVars, installerVars, compilerVars, entrypointVars>>

SpecWorkload == InitWorkload /\ [][NextWorkload]_vars

\* Runs of install-features.sh in a container, for every features file
\* and every set of tools already present that the model considers.
InitInstaller ==
    /\ InitFor({})
    /\ ncalls = [w \in WorkspaceIds |-> 0]
    /\ WorkloadOff
    /\ inst_pc = "idle"
    /\ features_file \in FeaturesFiles
    /\ FEATURES_JSON = <<>>
    /\ exit_status = -1
    /\ install_steps = {}
    /\ installed \in SUBSET SampleTools
    /\ installed_before = installed
    /\ runs = 0
    /\ CompilerOff
    /\ EntrypointOff

NextInstaller ==
    \/ StartInstaller /\ UNCHANGED <<orchestratorVars, workloadVars, compilerVars, entrypointVars>>
    \/ CheckFeaturesFile /\ UNCHANGED <<orchestratorVars, workloadVars, compilerVars, entrypointVars>>
    \/ ReadFeatures /\ UNCHANGED <<orchestratorVars, workloadVars, compilerVars, entrypointVars>>
    \/ DefineHelpers /\ UNCHANGED <<orchestratorVars, workloadVars, compilerVars, entrypointVars>>

SpecInstaller == InitInstaller /\ [][NextInstaller]_vars

\* Runs of the compile section for every repository of the model, in a
\* /workspaces volume that holds the directory of the repository, as the
\* remote has it, or does not, in a container of an image with or without
\* jq.
InitCompiler ==
    /\ InitFor({})
    /\ ncalls = [w \in WorkspaceIds |-> 0]
    /\ WorkloadOff
    /\ InstallerOff
    /\ comp_pc = "idle"
    /\ remote \in Repositories
    /\ repo \in {NoDirectory, Cloned(remote)}
    /\ image_jq \in BOOLEAN
    /\ files = <<>>
    /\ directories = {}
    /\ written = {}
    /\ files_before = <<>>
    /\ inputs_before = [repo |-> repo, jq |-> image_jq]
    /\ compiles = 0
    /\ jq = image_jq
    /\ EntrypointOff

NextCompiler ==
    \/ StartCompile /\ UNCHANGED <<orchestratorVars, workloadVars, installerVars, entrypointVars>>
    \/ CloneIfNeeded /\ UNCHANGED <<orchestratorVars, workloadVars, installerVars, entrypointVars>>
    \/ CheckDockerfile /\ UNCHANGED <<orchestratorVars, workloadVars, installerVars, entrypointVars>>
    \/ CheckDescriptor /\ UNCHANGED <<orchestratorVars, workloadVars, installerVars, entrypointVars>>
    \/ InstallJq /\ UNCHANGED <<orchestratorVars, workloadVars, installerVars, entrypointVars>>
    \/ ExtractMember /\ UNCHANGED <<orchestratorVars, workloadVars, installerVars, entrypointVars>>
    \/ ExtractSettings /\ UNCHANGED <<orchestratorVars, workloadVars, installerVars, entrypointVars>>
    \/ ExtractUsers /\ UNCHANGED <<orchestratorVars, workloadVars, installerVars, entrypointVars>>

SpecCompiler == InitCompiler /\ [][NextCompiler]_vars

\* Starts of the code-server container for every set of optional files
\* under /workspaces.
InitEntrypoint ==
    /\ InitFor({})
    /\ ncalls = [w \in WorkspaceIds |-> 0]
    /\ WorkloadOff
    /\ InstallerOff
    /\ CompilerOff
    /\ ep_phase = "idle"
    /\ ep_at = 0
    /\ ep_files \in SUBSET OptionalFiles
    /\ ep_log = <<>>
    /\ ep_status = 0
    /\ lifecycle = "none"
    /\ starts = 0

NextEntrypoint ==
    \/ StartEntrypoint /\ UNCHANGED <<orchestratorVars, workloadVars, installerVars, compilerVars>>
    \/ TestFile /\ UNCHANGED <<orchestratorVars, workloadVars, installerVars, compilerVars>>
    \/ EndFile /\ UNCHANGED <<orchestratorVars, workloadVars, installerVars, compilerVars>>
    \/ TestLifecycle /\ UNCHANGED <<orchestratorVars, workloadVars, installerVars, compilerVars>>
    \/ EndLifecycle /\ UNCHANGED <<orchestratorVars, workloadVars, installerVars, compilerVars>>
    \/ LaunchEditor /\ UNCHANGED <<orchestratorVars, workloadVars, installerVars, compilerVars>>
    \/ EndEditor /\ UNCHANGED <<orchestratorVars, workloadVars, installerVars, compilerVars>>

SpecEntrypoint == InitEntrypoint /\ [][NextEntrypoint]_vars

(* ------------------------------ claims -------------------------------- *)

InitReturned(w) ==
    /\ op[w] = "initialize_workspace"
    /\ pc[w] = "idle"
    /\ result[w] \in {"True", "False"}

TeardownReturned(w) ==
    /\ op[w] = "_cleanup_failed_workspace"
    /\ pc[w] = "idle"
    /\ result[w] \in {"returned", "raised"}

\* A log entry for a creation call that is not wrapped in a tolerant
\* try/except.
IsMandatoryCreate(e) ==
    \/ e.api = "create_namespace"
    \/ e.api = "create" /\ e.obj \in MandatoryObjects

LastCall(w) == log[w][Len(log[w])]

\* C1: after initialize_workspace has returned, either the full
\* ResourceSet exists in the namespace and its lifecycle label is "ready",
\* or the namespace does not exist.
C1_AllOrNothing ==
    \A w \in WorkspaceIds :
        InitReturned(w) =>
            \/ /\ nsPhase[Namespace(w)] = "active"
               /\ MandatoryObjects \subseteq nsObjs[Namespace(w)]
               /\ nsLabel[Namespace(w)] = "ready"
            \/ nsPhase[Namespace(w)] = "absent"

\* C2: whenever initialize_workspace returns failure, it has requested the
\* deletion of the workspace's namespace (teardown) before returning.
C2_FailureInvokesTeardown ==
    \A w \in WorkspaceIds :
        (InitReturned(w) /\ result[w] = "False") =>
            \E i \in 1..Len(log[w]) :
                /\ log[w][i].api = "delete_namespace"
                /\ log[w][i].ns = Namespace(w)

\* C3: a failed mandatory creation call is the last platform call of the
\* pipeline (it is not re-issued and no later stage is issued), and
\* initialize_workspace has then returned False.
C3_AbortOnMandatoryFailure ==
    \A w \in WorkspaceIds :
        op[w] = "initialize_workspace" =>
            \A i \in 1..Len(log[w]) :
                (IsMandatoryCreate(log[w][i]) /\ ~log[w][i].ok) =>
                    /\ i = Len(log[w])
                    /\ pc[w] = "idle"
                    /\ result[w] = "False"

\* C3 happens: the deployment's creation failed in the middle of the
\* pipeline and initialize_workspace returned False.
C3_Witness ==
    \E w \in WorkspaceIds :
        /\ InitReturned(w)
        /\ result[w] = "False"
        /\ Len(log[w]) > 1
        /\ LastCall(w) = Call("create", Namespace(w), Deployment, FALSE)

\* C4: initialize_workspace returns True only when the creation calls for
\* the namespace and for every mandatory object have been issued and have
\* all succeeded.
C4_TrueOnlyAfterAllCreated ==
    \A w \in WorkspaceIds :
        (op[w] = "initialize_workspace" /\ result[w] = "True") =>
            /\ \E i \in 1..Len(log[w]) :
                 log[w][i] = Call("create_namespace", Namespace(w), NamespaceObj, TRUE)
            /\ \A o \in MandatoryObjects :
                 \E i \in 1..Len(log[w]) :
                    log[w][i] = Call("create", Namespace(w), o, TRUE)
            /\ \A i \in 1..Len(log[w]) :
                 IsMandatoryCreate(log[w][i]) => log[w][i].ok

\* C4 happens: initialize_workspace returned True.
C4_Witness ==
    \E w \in WorkspaceIds :
        /\ InitReturned(w)
        /\ result[w] = "True"
        /\ LastCall(w) = Call("create", Namespace(w), Ingress, TRUE)

\* C5: the namespace is created in the lifecycle state "initializing",
\* every successful initialize_workspace leaves the lifecycle label
\* "ready", and the label is never "ready" before the ingress exists.
C5_ReadyAfterSuccess ==
    \A w \in WorkspaceIds :
        /\ (op[w] = "initialize_workspace" /\ pc[w] = "create_workspace_pvc")
              => nsLabel[Namespace(w)] = InitialLabel
        /\ (InitReturned(w) /\ result[w] = "True" /\ nsPhase[Namespace(w)] = "active")
              => nsLabel[Namespace(w)] = "ready"
        /\ nsLabel[Namespace(w)] = "ready" => Ingress \in nsObjs[Namespace(w)]

\* C6: after the deletion request the teardown performs at most 30
\* existence polls, whatever the platform answers.
C6_AtMostThirtyPolls ==
    \A w \in WorkspaceIds : polls[w] <= MaxRetries

\* C7: the teardown reports a timeout exactly when it has polled 30 times
\* and each of the 30 polls observed the namespace, and it has returned
\* then; a poll that answers 404 ends the polling with a reported success.
C7_TimeoutExactlyAfterThirtyPolls ==
    \A w \in WorkspaceIds :
        op[w] = "_cleanup_failed_workspace" =>
            /\ report[w] = "timeout" <=>
                  (polls[w] = MaxRetries /\ apiErrors[w] = 0 /\ max_retries[w] = 0)
            /\ report[w] = "timeout" => TeardownReturned(w)
            /\ report[w] = "success" =>
                  (TeardownReturned(w) /\ nsPhase[Namespace(w)] = "absent"
                   /\ max_retries[w] > 0)

\* The order in which the teardown is to issue its deletion requests.
TeardownOrder ==
    << [api |-> "delete_collection", obj |-> AllOf("deployment")],
       [api |-> "delete_collection", obj |-> AllOf("service")],
       [api |-> "delete_collection", obj |-> AllOf("configmap")],
       [api |-> "delete_collection", obj |-> AllOf("pvc")],
       [api |-> "delete_namespace",  obj |-> NamespaceObj] >>

\* C8: the teardown issues its deletion requests in the order deployments,
\* services, config maps, PVCs, namespace: at every moment the requests
\* issued so far are a prefix of that order.
C8_TeardownOrder ==
    \A w \in WorkspaceIds :
        op[w] = "_cleanup_failed_workspace" =>
            /\ Len(log[w]) <= Len(TeardownOrder)
            /\ \A i \in 1..Len(log[w]) :
                 /\ log[w][i].api = TeardownOrder[i].api
                 /\ log[w][i].obj = TeardownOrder[i].obj
                 /\ log[w][i].ns = Namespace(w)

\* C8 happens: a teardown of a provisioned namespace has requested the
\* namespace deletion after the four collection deletions.
C8_Witness ==
    \E w \in WorkspaceIds :
        /\ op[w] = "_cleanup_failed_workspace"
        /\ startPhase[w] = "active"
        /\ Len(log[w]) = 5
        /\ LastCall(w) = Call("delete_namespace", Namespace(w), NamespaceObj, TRUE)

\* C9: a failed collection deletion never ends the teardown: a teardown
\* that has returned has issued all four collection deletions and has
\* requested the namespace deletion, and it has returned normally.
C9_BestEffortSteps ==
    \A w \in WorkspaceIds :
        op[w] = "_cleanup_failed_workspace" =>
            /\ result[w] # "raised"
            /\ \A i \in 1..Len(log[w]) :
                 (log[w][i].api = "delete_collection" /\ ~log[w][i].ok) =>
                     (Len(log[w]) > i \/ pc[w] # "idle")
            /\ pc[w] = "idle" =>
                 /\ result[w] = "returned"
                 /\ Len(log[w]) = 5
                 /\ \A k \in {"deployment", "service", "configmap", "pvc"} :
                      \E i \in 1..4 :
                         /\ log[w][i].api = "delete_collection"
                         /\ log[w][i].obj = AllOf(k)
                 /\ log[w][5].api = "delete_namespace"

\* C9 happens: all four collection deletions failed, the namespace
\* deletion was still requested and accepted, and the teardown returned.
C9_Witness ==
    \E w \in WorkspaceIds :
        /\ TeardownReturned(w)
        /\ Len(log[w]) = 5
        /\ \A i \in 1..4 : ~log[w][i].ok
        /\ log[w][5] = Call("delete_namespace", Namespace(w), NamespaceObj, TRUE)

\* C10: a teardown invoked for a namespace that does not exist leaves the
\* platform as it was (its own namespace stays absent and empty, and the
\* system namespace, when it is another one, keeps the shared objects),
\* never enters the poll loop, can always take its next step, and returns
\* normally.
C10_TeardownIdempotent ==
    \A w \in WorkspaceIds :
        (op[w] = "_cleanup_failed_workspace" /\ startPhase[w] = "absent") =>
            /\ nsPhase[Namespace(w)] = "absent"
            /\ nsObjs[Namespace(w)] = {}
            /\ nsLabel[Namespace(w)] = "none"
            /\ Namespace(w) # SystemNamespace =>
                 /\ nsPhase[SystemNamespace] = "active"
                 /\ nsObjs[SystemNamespace] = SharedObjects
            /\ polls[w] = 0
            /\ Len(log[w]) <= 5
            /\ result[w] # "raised"
            /\ pc[w] # "idle" => ENABLED _cleanup_failed_workspace(w)
            /\ pc[w] = "idle" => result[w] = "returned"

\* C10 happens: a second teardown, invoked right after a teardown that saw
\* the namespace disappear, has returned.
C10_Witness ==
    \E w \in WorkspaceIds :
        /\ TeardownReturned(w)
        /\ prev[w]
        /\ startPhase[w] = "absent"
        /\ result[w] = "returned"
        /\ Len(log[w]) = 5

\* Everything that belongs to one workspace: the state of its call and the
\* state of its namespace.
StateOf(w) ==
    <<pc[w], result[w], log[w], max_retries[w], polls[w], apiErrors[w],
      report[w], startPhase[w], ncalls[w], op[w], prev[w],
      nsPhase[Namespace(w)], nsLabel[Namespace(w)], nsObjs[Namespace(w)]>>

\* The executions are for workspaces: none of them has the shared
\* namespace as the namespace of its id.
WorkspaceExecutions == \A w \in clients : Namespace(w) # SystemNamespace

\* Every call an execution has issued is addressed to the execution's own
\* namespace, except reads of the shared namespace; the module-level
\* workspace_config is as it was at the start and so is, under workspace
\* executions, the shared namespace.
C11_OwnNamespaceOnly ==
    /\ \A w \in WorkspaceIds : \A i \in 1..Len(log[w]) :
          \/ log[w][i].ns = Namespace(w)
          \/ log[w][i].api = "read" /\ log[w][i].ns = SystemNamespace
    /\ WorkspaceExecutions =>
          /\ nsPhase[SystemNamespace] = "active"
          /\ nsLabel[SystemNamespace] = "none"
          /\ nsObjs[SystemNamespace] = SharedObjects
    /\ workspace_config = DefaultWorkspaceConfig

\* A step changes the state of at most one workspace.
C11_OneWorkspacePerStep ==
    \A w \in WorkspaceIds :
        StateOf(w)' # StateOf(w) =>
            \A other \in WorkspaceIds \ {w} : StateOf(other)' = StateOf(other)

\* C11: when executions for two distinct workspace ids interleave, every
\* create and delete call of an execution is addressed to its own
\* namespace, the only access outside it is a read of the shared
\* namespace, which no workspace execution writes, the module-level
\* workspace_config is never mutated, and no step of one execution
\* changes the state or the namespace of the other.
C11_ConcurrentIsolation ==
    []C11_OwnNamespaceOnly /\ [][C11_OneWorkspacePerStep]_vars

\* C11 happens: a teardown for one workspace and an initialize_workspace
\* for the other are both under way, the teardown having issued its four
\* collection deletions, the other having read the shared namespace and
\* created objects of its own.
C11_Witness ==
    /\ op["w1"] = "_cleanup_failed_workspace" /\ pc["w1"] = "delete_namespace"
    /\ Len(log["w1"]) = 4
    /\ op["w2"] = "initialize_workspace" /\ pc["w2"] = "create_deployment"
    /\ \E i \in 1..Len(log["w2"]) :
          log["w2"][i].api = "read" /\ log["w2"][i].ns = SystemNamespace
    /\ nsObjs[Namespace("w2")] # {}

\* The creation of `obj` was issued, and returned normally, before the
\* j-th call of the execution.
CreatedBefore(w, obj, j) ==
    \E i \in 1..(j - 1) :
        log[w][i].api = "create" /\ log[w][i].obj = obj /\ log[w][i].ok

\* The credential secret and the configuration bundles.
SecretAndBundles ==
    { WorkspaceSecret, InitConfigMap, FeatureConfigMap, InfoConfigMap,
      PortDetectorCm }

\* C12: the creation calls of initialize_workspace follow the stage
\* order: the namespace first; both volume claims, successfully, before
\* the credential secret and every configuration bundle; the service
\* account before the deployment; the deployment before the service; the
\* service before the ingress.
C12_StageOrder ==
    \A w \in WorkspaceIds : \A j \in 1..Len(log[w]) :
        LET e == log[w][j] IN
        /\ e.api \in {"create", "read"} =>
              /\ j > 1
              /\ log[w][1].api = "create_namespace" /\ log[w][1].ok
        /\ e.api = "create_namespace" => j = 1
        /\ (e.api = "create" /\ e.obj \in SecretAndBundles) =>
              CreatedBefore(w, WorkspacePvc, j) /\ CreatedBefore(w, RegistryPvc, j)
        /\ (e.api = "create" /\ e.obj = Deployment) =>
              CreatedBefore(w, ServiceAccount, j)
        /\ (e.api = "create" /\ e.obj = Service) =>
              CreatedBefore(w, Deployment, j)
        /\ (e.api = "create" /\ e.obj = Ingress) =>
              CreatedBefore(w, Service, j)

\* C12 happens: an execution has gone through every stage up to the
\* ingress.
C12_Witness ==
    \E w \in WorkspaceIds :
        /\ op[w] = "initialize_workspace"
        /\ Len(log[w]) > 0
        /\ LastCall(w).api = "create" /\ LastCall(w).obj = Ingress
        /\ \E i \in 1..Len(log[w]) :
              log[w][i].api = "create" /\ log[w][i].obj = WorkspaceSecret

\* The configuration bundles generated by initialize_workspace.
GeneratedBundles == { InitConfigMap, FeatureConfigMap, InfoConfigMap }

\* The stage that brings `obj` into the namespace (the read of the shared
\* original, or the creation) was entered before the j-th call.
AttemptedBefore(w, obj, j) ==
    \E i \in 1..(j - 1) :
        log[w][i].api \in {"create", "read"} /\ log[w][i].obj = obj

\* C13: the credential secret and the cluster-shared assets (wildcard
\* certificate, shared script bundle, registry pull credential) are
\* brought into the namespace before any generated configuration bundle
\* is stored.
C13_SharedAssetsBeforeBundles ==
    \A w \in WorkspaceIds : \A j \in 1..Len(log[w]) :
        (log[w][j].api = "create" /\ log[w][j].obj \in GeneratedBundles) =>
            /\ AttemptedBefore(w, WorkspaceSecret, j)
            /\ AttemptedBefore(w, WildcardCert, j)
            /\ AttemptedBefore(w, PortDetectorCm, j)
            /\ AttemptedBefore(w, RegistryCredentials, j)

\* A log entry of a copy stage that failed: the read of the shared
\* original, or the creation of the workspace-local copy.
IsFailedCopy(e) ==
    /\ ~e.ok
    /\ e.obj \in SharedObjects
    /\ e.api \in {"read", "create"}

\* The stages that follow the two copy stages.
StagesAfterCopies ==
    { RegistryCredentials, ServiceAccount, Deployment, Service, Ingress }

\* A call of one of the two copy stages: a read of a shared object, or the
\* creation of its copy.
IsCopyCall(e) ==
    /\ e.obj \in SharedObjects
    /\ e.api \in {"read", "create"}

\* C14: a failed read or a failed creation of the copy of the wildcard
\* certificate or of the shared script bundle does not abort
\* initialize_workspace: it never is the call after which False is
\* returned, and once the copy stages are reached, whatever their calls
\* return, the later stages are executed and True is returned when every
\* other creation succeeded.
C14_CopyFailuresTolerated ==
    \A w \in WorkspaceIds :
        (op[w] = "initialize_workspace" /\ Len(log[w]) > 0) =>
            /\ pc[w] = "idle" => ~IsFailedCopy(LastCall(w))
            /\ (/\ pc[w] = "idle"
                /\ \E i \in 1..Len(log[w]) : IsCopyCall(log[w][i])
                /\ \A i \in 1..Len(log[w]) :
                      IsMandatoryCreate(log[w][i]) => log[w][i].ok)
                  => /\ result[w] = "True"
                     /\ \A obj \in StagesAfterCopies :
                           \E i \in 1..Len(log[w]) :
                               /\ log[w][i].api = "create"
                               /\ log[w][i].obj = obj
                               /\ log[w][i].ok

\* C14 happens: initialize_workspace has returned True although the read
\* of the shared script bundle and the creation of the copy of the
\* wildcard certificate both failed.
C14_Witness ==
    \E w \in WorkspaceIds :
        /\ InitReturned(w)
        /\ result[w] = "True"
        /\ \E i, j \in 1..Len(log[w]) :
              /\ IsFailedCopy(log[w][i]) /\ log[w][i].obj = PortDetectorCm
              /\ log[w][i].api = "read"
              /\ IsFailedCopy(log[w][j]) /\ log[w][j].obj = WildcardCert
              /\ log[w][j].api = "create"

\* The positions at which a container was started.
StartsOf(name) == { i \in 1..Len(pod.started) : pod.started[i] = name }

\* C15: the wrapper image build is never started before the base image
\* build has completed successfully, and the base image build is never
\* started before the init step has: the first start of the base build
\* comes after a start of the init step and before every start of the
\* wrapper build, and the wrapper build has not run while the base build
\* has not succeeded.
C15_WrapperBuildAfterBaseBuild ==
    /\ StartsOf("build-wrapper-image") # {} =>
          /\ "build-base-image" \in pod.succeeded
          /\ \A i \in StartsOf("build-wrapper-image") :
                \E j \in StartsOf("build-base-image") : j < i
          /\ pod.running # "build-base-image"
    /\ StartsOf("build-base-image") # {} =>
          /\ "init-workspace" \in pod.succeeded
          /\ \A i \in StartsOf("build-base-image") :
                \E j \in StartsOf("init-workspace") : j < i
    /\ "build-base-image" \notin pod.succeeded =>
          /\ pod.running # "build-wrapper-image"
          /\ "build-wrapper-image" \notin pod.succeeded
    /\ StartsOf("code-server") # {} =>
          {"build-base-image", "build-wrapper-image"} \subseteq pod.succeeded

\* C15 happens: the base image build has failed once, was started again
\* and succeeded, and the wrapper image build is running.
C15_Witness ==
    /\ pod.running = "build-wrapper-image"
    /\ pod.failures > 0
    /\ Cardinality(StartsOf("build-base-image")) > 1
    /\ "build-base-image" \in pod.succeeded

\* The init container of the submitted deployment with the given name.
InitContainerNamed(name) ==
    CHOOSE c \in { objects.workload.init_containers[i] :
                     i \in 1..Len(objects.workload.init_containers) } :
        c.name = name

\* The --destination argument of a build container.
DestinationOf(container) == container.args[3]

\* The destination argument for a role, a namespace name and a timestamp.
ExpectedDestination(role, ns, ts) ==
    "--destination=" \o aws_account_id
        \o ".dkr.ecr.us-east-1.amazonaws.com/workspace-images:"
        \o role \o "-" \o ns \o "-" \o ts

\* The destination tags of both builds are the same function of (role,
\* namespace name, timestamp), with the same namespace name and the same
\* timestamp `ts`, and differ in the role only.
BothTagsEmbed(ts) ==
    LET ns == "workspace-" \o args.workspace_id IN
    /\ DestinationOf(InitContainerNamed("build-base-image"))
          = ExpectedDestination("custom-user", ns, ts)
    /\ DestinationOf(InitContainerNamed("build-wrapper-image"))
          = ExpectedDestination("custom-wrapper", ns, ts)
    /\ workspace_ids.namespace_name = ns
    /\ workspace_ids.build_timestamp = ts

\* C16: the destination tags of the wrapper build and of the base build
\* embed the same (namespace name, build timestamp) pair and differ only
\* in the role part, and a build_timestamp supplied by the caller (any
\* value other than None) is the timestamp of both.
C16_TagsShareNamespaceAndTimestamp ==
    Has("workload") =>
        BothTagsEmbed(IF args.build_timestamp # None
                      THEN args.build_timestamp
                      ELSE Clock.stamp)

\* C16, amended: the destination tags of the wrapper build and of the base
\* build embed the same (namespace name, build timestamp) pair and differ
\* only in the role part; a non-empty build_timestamp supplied by the
\* caller is the timestamp of both, and the clock reading taken at the
\* start of the call is when build_timestamp is None or empty.
C16_TagsShareNamespaceAndNonEmptyTimestamp ==
    Has("workload") =>
        BothTagsEmbed(IF args.build_timestamp \notin {None, ""}
                      THEN args.build_timestamp
                      ELSE Clock.stamp)

\* C16 happens: a deployment built from a caller-supplied, non-empty
\* build_timestamp has been submitted.
C16_Witness ==
    /\ Has("workload")
    /\ pod.phase = "Pending"
    /\ args.build_timestamp = "20250102030405"
    /\ workspace_ids.build_timestamp = "20250102030405"

\* A text, given as the sequence of its parts, has `value` as a part.
Contains(text, value) == \E i \in 1..Len(text) : text[i] = value

\* Every container of the submitted pod template.
AllContainers ==
    { objects.workload.init_containers[i] :
        i \in 1..Len(objects.workload.init_containers) }
    \cup { objects.workload.containers[i] :
             i \in 1..Len(objects.workload.containers) }

\* The credential secret holds the password, no literal value of an
\* environment variable is the password, and the PASSWORD variable of the
\* runtime container is a reference to the key of the secret.
PasswordInSecretAndByReference ==
    /\ Has("secret") =>
          Contains(objects.secret, <<"password", workspace_ids.password>>)
    /\ Has("workload") =>
          /\ \A c \in AllContainers : \A i \in 1..Len(c.env) :
                c.env[i].value # workspace_ids.password
          /\ \E c \in AllContainers :
                /\ c.name = "code-server"
                /\ \E i \in 1..Len(c.env) :
                      /\ c.env[i].name = "PASSWORD"
                      /\ c.env[i].value = None
                      /\ c.env[i].secret_key_ref = <<"workspace-secret", "password">>

\* C17: the generated password is stored only in the credential secret:
\* no config map and no literal value of an environment variable of the
\* workload contains it, and the runtime container obtains it through a
\* reference to the secret.
C17_PasswordOnlyInSecret ==
    /\ PasswordInSecretAndByReference
    /\ Has("init") => ~Contains(objects.init, workspace_ids.password)
    /\ Has("feature") => ~Contains(objects.feature, workspace_ids.password)
    /\ Has("info") => ~Contains(objects.info, workspace_ids.password)

\* C17, amended: the generated password is stored in the credential
\* secret and, in plaintext, in the workspace-info config map, under the
\* key "password"; the feature-install config map, the text this module
\* appends to the workspace-init config map and the literal values of the
\* environment variables of the workload do not contain it, and the
\* runtime container obtains it through a reference to the secret.
C17_PasswordInSecretAndWorkspaceInfo ==
    /\ PasswordInSecretAndByReference
    /\ Has("init") => ~Contains(objects.init, workspace_ids.password)
    /\ Has("feature") => ~Contains(objects.feature, workspace_ids.password)
    /\ Has("info") =>
          \E i \in 1..(Len(objects.info) - 1) :
              /\ objects.info[i] = "password"
              /\ objects.info[i + 1] = workspace_ids.password
              /\ \A j \in 1..Len(objects.info) :
                    objects.info[j] = workspace_ids.password => j = i + 1

\* C17 happens: the secret, the config maps and the deployment of a call
\* that was given a source-control token have been submitted and the pod
\* runs.
C17_Witness ==
    /\ wl_pc = "return True"
    /\ pod.phase = "Running"
    /\ args.github_pat # None
    /\ workspace_ids.password \in PasswordSamples
    /\ Len(objects.info) > 0

\* C18: a generated subdomain has exactly 8 characters, each a lowercase
\* letter or a digit, and the fully-qualified domain name is the
\* subdomain, a dot, and the configured domain suffix.
C18_SubdomainShape ==
    /\ Len(chosen) <= 8
    /\ \A i \in 1..Len(chosen) : chosen[i] \in AsciiLowercase \cup Digits
    /\ workspace_ids # <<>> =>
          /\ Len(chosen) = 8
          /\ workspace_ids.subdomain = Join(chosen)
          /\ Len(workspace_ids.subdomain) = 8
          /\ workspace_ids.fqdn
                = workspace_ids.subdomain \o "." \o workspace_domain
          /\ Len(workspace_ids.fqdn) = 8 + 1 + Len(workspace_domain)

\* C18 happens: a subdomain mixing a letter and a digit has been
\* generated and the fully-qualified domain name computed from it.
C18_Witness ==
    /\ wl_pc = "create_namespace"
    /\ \E i, j \in 1..Len(chosen) :
          chosen[i] \in AsciiLowercase /\ chosen[j] \in Digits
    /\ workspace_ids.fqdn # ""

\* A run of the installer has ended.
InstallerExited == inst_pc = "exited"

\* C19: when /workspaces/.devcontainer-features is absent, the installer
\* exits with status 0 without executing any installation step, however
\* many times it is run, and the container is left as it was.
C19_AbsentFeaturesFileIsNoOp ==
    ~features_file.present =>
        /\ install_steps = {}
        /\ installed = installed_before
        /\ inst_pc \in {"idle", "check_features_file", "exited"}
        /\ InstallerExited => exit_status = 0

\* C19 happens: the second run without a features file has exited, in a
\* container that had tools installed.
C19_Witness ==
    /\ ~features_file.present
    /\ InstallerExited
    /\ runs = 2
    /\ installed # {}

\* C20: for a feature set whose feature ids are all unrecognized,
\* whatever the option names and values, no installation step is
\* executed and the installer exits with status 0.
C20_UnrecognizedFeaturesIgnored ==
    (/\ features_file.present
     /\ DOMAIN features_file.features \cap RecognizedFeatures = {}
     /\ InstallerExited)
        => /\ install_steps = {}
           /\ exit_status = 0

\* The recognized features whose installation block reads a version
\* option, and the version values that stand for a lookup.
VersionedFeatures ==
    { "node", "python", "go", "java", "dotnet", "php", "terraform", "kubectl" }

SentinelVersions == { "latest", "lts" }

\* C21: for a recognized feature with a version option, an explicit
\* version that is not a sentinel reaches the installation step verbatim:
\* once the installer has run, that feature has been installed at exactly
\* that version.
C21_ExplicitVersionVerbatim ==
    \A f \in VersionedFeatures :
        (/\ features_file.present
         /\ f \in DOMAIN features_file.features
         /\ "version" \in DOMAIN features_file.features[f]
         /\ features_file.features[f].version \notin SentinelVersions
         /\ InstallerExited)
            => <<f, features_file.features[f].version>> \in install_steps

\* C22: the features are processed one after the other and the first
\* failing installation command ends the script: a run on a feature set
\* with a recognized feature ends either with status 0 after every
\* recognized feature of the set was processed, or with a non-zero status
\* at an installation step it had entered.
C22_SequentialFailFast ==
    (/\ features_file.present
     /\ DOMAIN features_file.features \cap RecognizedFeatures # {}
     /\ InstallerExited)
        => \/ /\ exit_status = 0
              /\ \A f \in DOMAIN features_file.features \cap RecognizedFeatures :
                    \E step \in install_steps : step[1] = f
           \/ /\ exit_status # 0
              /\ install_steps # {}

\* A text holds a section: the parts of the section, in order and adjacent,
\* starting at the given position.
SectionAt(text, section, i) ==
    /\ i + Len(section) - 1 <= Len(text)
    /\ \A k \in 1..Len(section) : text[i + k - 1] = section[k]

\* C26: init.sh of the workspace-init bundle holds the compile section of
\* _create_wrapper_dockerfile_script and, after it, the wrapper Dockerfile
\* section of _create_wrapper_dockerfile.
C26_InitScriptHoldsCompileSection ==
    Has("init") =>
        \E i, j \in 1..Len(objects.init) :
            /\ SectionAt(objects.init, CompileSection(CallWorkspaceConfig), i)
            /\ SectionAt(objects.init, _create_wrapper_dockerfile(workspace_ids), j)
            /\ i < j

\* The compile section has run to its end on a repository with a
\* descriptor.
CompiledDescriptor == comp_pc = "done" /\ repo.descriptor.present

\* The primary and the nested extension list of the descriptor, empty when
\* absent.
PrimaryExtensions ==
    IF Json.extensions.present THEN Json.extensions.value ELSE <<>>

NestedExtensions ==
    IF /\ Json.customizations.present
       /\ Json.customizations.value.vscode.present
       /\ Json.customizations.value.vscode.value.extensions.present
    THEN Json.customizations.value.vscode.value.extensions.value
    ELSE <<>>

\* C23: after the compile step on a descriptor, with jq at hand, the
\* extensions artifact is exactly the primary list when that list is
\* non-empty, exactly the nested list when the primary list is absent or
\* empty and the nested one is not, and there is no extensions artifact
\* when both are absent or empty.
C23_ExtensionFallbackPrecedence ==
    (CompiledDescriptor /\ jq) =>
        IF PrimaryExtensions # <<>>
        THEN /\ Artifact.extensions \in DOMAIN files
             /\ files[Artifact.extensions] = PrimaryExtensions
        ELSE IF NestedExtensions # <<>>
        THEN /\ Artifact.extensions \in DOMAIN files
             /\ files[Artifact.extensions] = NestedExtensions
        ELSE Artifact.extensions \notin DOMAIN files

\* C24: the second run of the compile step on the same repository, with
\* jq at hand as in the first run, leaves the artifact files, and their
\* contents, as the first run left them.
C24_CompileIdempotent ==
    (/\ comp_pc = "done"
     /\ compiles >= 2
     /\ inputs_before = [repo |-> repo, jq |-> jq]) => files = files_before

\* C25: when the compile step has ended on a repository without a
\* descriptor, the base build's Dockerfile is the default base-image
\* declaration, and there is no extensions, settings or features artifact.
C25_NoDescriptorMinimalSpec ==
    (comp_pc = "done" /\ ~repo.descriptor.present) =>
        /\ Artifact.dockerfile \in DOMAIN files
        /\ files[Artifact.dockerfile] = DefaultBaseImage
        /\ {Artifact.extensions, Artifact.settings, Artifact.features} \cap DOMAIN files = {}

\* The artifact of each member of the descriptor, and whether the
\* descriptor has the member (a list counts when it has elements).
HasValue(member) == member.present /\ member.value # <<>>

NestedSettingsPresent ==
    /\ Json.customizations.present
    /\ Json.customizations.value.vscode.present
    /\ Json.customizations.value.vscode.value.settings.present

FieldArtifacts ==
    { <<Artifact.extensions, PrimaryExtensions # <<>> \/ NestedExtensions # <<>> >>,
      <<Artifact.settings, Json.settings.present \/ NestedSettingsPresent>>,
      <<Artifact.features, Json.features.present>>,
      <<Artifact.ports, HasValue(Json.forwardPorts)>>,
      <<Artifact.customizations, Json.customizations.present>>,
      <<Artifact.container_env, HasValue(Json.containerEnv)>>,
      <<Artifact.remote_env, HasValue(Json.remoteEnv)>>,
      <<Artifact.user_config, Json.remoteUser.present \/ Json.containerUser.present>>,
      <<Artifact.post_create, Json.postCreateCommand.present>>,
      <<Artifact.post_start, Json.postStartCommand.present>> }

\* C27: after the compile step on a repository with a descriptor, with or
\* without a Dockerfile, and with jq at hand, every member the descriptor
\* has is in its own artifact and a member it lacks has no artifact.
C27_EachFieldItsOwnArtifact ==
    (CompiledDescriptor /\ jq) =>
        \A fa \in FieldArtifacts : fa[2] <=> fa[1] \in DOMAIN files

\* The objects the pod template of the deployment and the ingress refer to
\* by name: the claims and config maps of the volumes, the secrets of the
\* environment, of image_pull_secrets and of the ingress tls entry, the
\* service account.
ReferencedObjects ==
    { WorkspacePvc, RegistryPvc, InitConfigMap, PortDetectorCm,
      WorkspaceSecret, RegistryCredentials, WildcardCert, ServiceAccount,
      Service }

\* C28: when initialize_workspace has returned True, every object the
\* workload definition and the ingress refer to by name is in the
\* namespace of the workspace.
C28_ReferencedObjectsExist ==
    \A w \in WorkspaceIds :
        (InitReturned(w) /\ result[w] = "True") =>
            ReferencedObjects \subseteq nsObjs[Namespace(w)]

\* C30: the ingress backend routes to the port of the service, and the
\* service targets the port on which the editor daemon of the wrapper
\* image listens, which is the port the image exposes.
C30_RouteReachesEditor ==
    Has("ingress") =>
        /\ objects.ingress.backend.service = objects.service.name
        /\ objects.ingress.backend.port = objects.service.port
        /\ objects.service.target_port = BindPort
        /\ ExposedPort = BindPort

\* Positions in the log of the entrypoint.
StartOf(cmd) == { i \in 1..Len(ep_log) : ep_log[i] = Started(cmd) }

EndedWith(cmd, status) == \E i \in 1..Len(ep_log) : ep_log[i] = Ended(cmd, status)

PlaceOf(cmd) == CHOOSE i \in 1..Len(EntrypointList) : EntrypointList[i] = cmd

EditorLaunched == StartOf(Editor) # {}

\* bash -c has read the && list to its end or has left it.
ListDone == ep_phase \in {"editor", "exited"}

\* C29: the commands of the start-up sequence start in the order feature
\* installer, environment setup, extension installer, lifecycle daemon,
\* editor; an optional one starts only if its file is present; the three
\* run in the foreground have ended before the next command starts, the
\* lifecycle daemon is not waited for; the editor is launched only if
\* every present foreground file ended with status 0 (so never after a
\* failed feature installer), it is launched when the four files are
\* absent, and every present file was started before it.
C29_StartupSequence ==
    /\ \A i, j \in 1..Len(ep_log) :
          (i < j /\ ep_log[i].event = "start" /\ ep_log[j].event = "start")
              => /\ PlaceOf(ep_log[i].cmd) < PlaceOf(ep_log[j].cmd)
                 /\ ep_log[i].cmd # LifecycleDaemon
                       => \E k \in (i + 1)..(j - 1) :
                              /\ ep_log[k].event = "end"
                              /\ ep_log[k].cmd = ep_log[i].cmd
    /\ \A f \in OptionalFiles : StartOf(f) # {} => f \in ep_files
    /\ EditorLaunched => \A f \in ep_files \ {LifecycleDaemon} : EndedWith(f, 0)
    /\ (ListDone /\ ep_files = {}) => EditorLaunched
    /\ EditorLaunched =>
          \A f \in ep_files : \E i \in StartOf(f) : \A e \in StartOf(Editor) : i < e
    /\ (\E status \in ExitStatuses \ {0} : EndedWith(FeatureInstaller, status))
          => ~EditorLaunched

\* C29 happens: the four files are present, the three in the foreground
\* have ended with status 0, and the editor has been launched while the
\* lifecycle daemon still runs in the background.
C29_Witness ==
    /\ ep_files = OptionalFiles
    /\ ep_phase = "editor"
    /\ lifecycle = "running"
    /\ EditorLaunched
    /\ \A f \in OptionalFiles \ {LifecycleDaemon} : EndedWith(f, 0)

\* The value that follows a key in the text of a dumped dictionary.
ValueOf(text, key) ==
    LET i == CHOOSE i \in 1..Len(text) : i % 2 = 1 /\ text[i] = key
    IN  text[i + 1]

\* The value of a literal environment variable of a container.
EnvValue(container, name) ==
    LET i == CHOOSE i \in 1..Len(container.env) : container.env[i].name = name
    IN  container.env[i].value

\* The subdomain the call generated, and the fqdn made of it.
GeneratedSubdomain == Join(chosen)

GeneratedFqdn == GeneratedSubdomain \o "." \o workspace_domain

\* C31: of the objects a call has submitted, the host of the ingress
\* rule, the fqdn label of the namespace and the fqdn of the workspace-info
\* document all are subdomain.domain for the one subdomain the call
\* generated, the url of the document is https:// followed by that fqdn,
\* and the proxy URI template of the code-server container is made of the
\* same subdomain.
C31_OneNetworkIdentity ==
    /\ Has("ingress") => objects.ingress.host = GeneratedFqdn
    /\ Has("namespace") => objects.namespace.fqdn = GeneratedFqdn
    /\ Has("info") =>
          /\ ValueOf(objects.info, "fqdn") = GeneratedFqdn
          /\ ValueOf(objects.info, "subdomain") = GeneratedSubdomain
          /\ ValueOf(objects.info, "url") = "https://" \o GeneratedFqdn
    /\ Has("workload") =>
          EnvValue(objects.workload.containers[1], "VSCODE_PROXY_URI")
               = "https://" \o GeneratedSubdomain \o "-{{port}}."
                     \o workspace_domain \o "/"

\* C31 happens: the objects of a call whose subdomain mixes letters and
\* digits are submitted, and the ingress is bound to its fqdn.
C31_Witness ==
    /\ ObjectFields \subseteq DOMAIN objects
    /\ GeneratedSubdomain = "a7a7a7a7"
    /\ objects.ingress.host = "a7a7a7a7." \o workspace_domain

\* The image named after FROM in a text.
FromOf(text) ==
    LET i == CHOOSE i \in 1..(Len(text) - 1) : text[i] = "FROM"
    IN  text[i + 1]

\* C32: once the objects of a call are submitted, the image after FROM in
\* the wrapper Dockerfile and the value of BASE_IMAGE in the wrapper build
\* container are the destination of the base build, and the image of the
\* code-server container is the destination of the wrapper build.
C32_ImageChain ==
    Has("workload") =>
        LET base    == InitContainerNamed("build-base-image")
            wrapper == InitContainerNamed("build-wrapper-image")
        IN  /\ "--destination=" \o FromOf(objects.init) = DestinationOf(base)
            /\ "--destination=" \o EnvValue(wrapper, "BASE_IMAGE")
                   = DestinationOf(base)
            /\ "--destination=" \o objects.workload.containers[1].image
                   = DestinationOf(wrapper)

\* C32 happens: the objects of a call without build_timestamp are
\* submitted, and the wrapper Dockerfile starts from the base image tagged
\* with the reading of the clock.
C32_Witness ==
    /\ Has("workload")
    /\ args.build_timestamp = None
    /\ FromOf(objects.init)
          = ImageRepository \o "custom-user-workspace-" \o args.workspace_id
                \o "-" \o Clock.stamp
    /\ objects.workload.containers[1].name = "code-server"

\* initialize_workspace was called for a workspace whose namespace existed,
\* and was not being deleted, when the call began.
CalledOnExisting(w) ==
    /\ op[w] = "initialize_workspace"
    /\ startPhase[w] = "active"

\* Such a call is at its first platform call, or has returned False with
\* the rejected create_namespace as the only call it issued.
C33_RejectedAtNamespace ==
    \A w \in WorkspaceIds :
        CalledOnExisting(w) =>
            \/ pc[w] = "create_namespace" /\ log[w] = <<>>
            \/ /\ pc[w] = "idle"
               /\ result[w] = "False"
               /\ Len(log[w]) = 1
               /\ log[w][1].api = "create_namespace"
               /\ ~log[w][1].ok

\* No step of such a call changes the namespace, its labels or the objects
\* it holds.
C33_NamespaceUntouched ==
    \A w \in WorkspaceIds :
        (CalledOnExisting(w) /\ pc[w] # "idle") =>
            /\ nsPhase'[Namespace(w)] = nsPhase[Namespace(w)]
            /\ nsLabel'[Namespace(w)] = nsLabel[Namespace(w)]
            /\ nsObjs'[Namespace(w)] = nsObjs[Namespace(w)]

\* C33: initialize_workspace for a workspace id whose namespace exists
\* returns False after the rejected create_namespace, issues no other
\* platform call, and leaves the namespace and everything in it as they
\* were.
C33_ExistingNamespaceKept ==
    []C33_RejectedAtNamespace /\ [][C33_NamespaceUntouched]_vars

\* C33 happens: a second initialize_workspace for a fully provisioned
\* workspace has returned False, and the namespace still holds every
\* object of the first.
C33_Witness ==
    \E w \in WorkspaceIds :
        /\ CalledOnExisting(w)
        /\ pc[w] = "idle"
        /\ result[w] = "False"
        /\ ncalls[w] = 2
        /\ nsObjs[Namespace(w)] = AllObjects

\* C34: when the installer has ended on a features file that gives a
\* versioned feature the version "latest" or "lts", the feature has been
\* installed in a version its own lookup resolved, and the sentinel itself
\* was not handed to an install step.
C34_SentinelsResolved ==
    \A f \in VersionedFeatures :
        (/\ features_file.present
         /\ f \in DOMAIN features_file.features
         /\ "version" \in DOMAIN features_file.features[f]
         /\ features_file.features[f].version \in SentinelVersions
         /\ InstallerExited)
            => /\ \E step \in install_steps :
                      step[1] = f /\ step[2] \notin SentinelVersions
               /\ \A v \in SentinelVersions : <<f, v>> \notin install_steps

\* The installation blocks that add lines to a profile file with >> each
\* time they run (the others write theirs anew with >).
ProfileExtenders == { "node" }

\* C35: the second run of the installer in the same container on the same
\* features file leaves the tools of the container as the first run left
\* them, installs no tool that was present when it began, and runs no
\* block that extends a profile file.
C35_SecondRunChangesNothing ==
    (features_file.present /\ runs >= 2 /\ InstallerExited) =>
        /\ installed = installed_before
        /\ \A step \in install_steps :
              step[1] \notin installed_before \cup ProfileExtenders

\* C35 happens: the second run on a features file that asks for node has
\* ended in a container that has node on the search path.
C35_Witness ==
    /\ features_file.present
    /\ "node" \in DOMAIN features_file.features
    /\ "node" \in installed_before
    /\ runs = 2
    /\ InstallerExited

====
